---- MODULE Spec2Model ----
(***************************************************************************)
(* Verification model of the TgAssistant job pipeline engine.              *)
(*                                                                         *)
(*   Spec        one job driven through Worker.process: the retry loop,    *)
(*               the four stage orchestrators (media, ingest, collect,     *)
(*               external) at the granularity of their store writes, file  *)
(*               writes and collaborator calls, process kills and reruns.  *)
(*   SpecSubmit  JobService.submit against the jobs table.                 *)
(*   SpecDb      threads calling Database.create_job / update_job_status / *)
(*               list_jobs on the shared connection guarded by _lock.      *)
(*   SpecFront   the web, bot, CLI and batch front-ends on one jobs table. *)
(*   SpecBatch   BatchRunner.run and index_builder.build on a note.        *)
(*   SpecIndex   the same on notes whose group prefixes alternate.         *)
(*   SpecClassify  classifier.classify and the dispatch by job type.       *)
(*   SpecLimits  the size/duration ceilings and the download calls.        *)
(*   SpecBus     EventBus publishers, loop callbacks and SSE consumers.    *)
(*   SpecPipeline  the events of JobService._run_pipeline.                 *)
(*   SpecNotify  runs under a progress callback that may raise.            *)
(*   SpecProgress  BotProgressCallback: deduplication and throttling.      *)
(*   SpecCancel  Spec with an external writer of the job's status.         *)
(*   SpecRestart  SpecFront with a kill and restart of the process.        *)
(***************************************************************************)
EXTENDS Integers, Sequences, FiniteSets, TLC

\* ---------------------------------------------------------------- bounds
MaxRetriesBound == 3      \* largest configured max_retries explored
MaxCalls == 2             \* Worker.process calls on the job in one behaviour
MaxKills == 1             \* process kills in one behaviour

\* ------------------------------------------------------ program constants
retry_backoff_sec == 30

NULL == "NULL"
None == "None"
NoMsg == 0                \* no message (last_error IS NULL, kwarg not given)
NoExc == [cls |-> "none", msg |-> NoMsg, src |-> "none"]

\* ------------------------------------------------------------- variables
VARIABLES
    \* --- Spec: environment of one job
    link,          \* "telegram" | "external"  (TelegramLink / ExternalLink)
    msg,           \* the remote content item: [text, media]
    max_retries,   \* cfg.max_retries
    \* --- Spec: store rows of the job
    job,           \* jobs row: [status, retry_count, last_error, job_type]
    assets,        \* assets rows of the job, in rowid order: "live" | "null" temp_path
    transcript,    \* transcripts row: 0 (no row) or the number of the call that wrote it
    summary,       \* summaries row present
    exports,       \* exports rows of the job: sequence of export_type
    errors,        \* errors table: [n, last] (row count and message of the newest row)
    \* --- Spec: filesystem
    fs,            \* files on disk: set of <<dir, name>>
    marker,        \* artifact names enumerated by the completion marker on disk
    \* --- Spec: Worker.process / orchestrator control state
    pc, attempt, from_start, exc, result, run,
    invocations,   \* orchestrator run() calls made by the current process call
    clsfails,      \* attempts of the current call that failed in _determine_job_type
    waits,         \* time.sleep arguments of the current call, in order
    calls, kills,
    \* --- SpecSubmit
    sjobs,         \* jobs table: set of rows [id, url, status]
    sresult,       \* outcome of the last submit
    squeue,        \* pipelines handed to the single-slot executor
    snext,         \* submits made
    \* --- SpecDb
    rows,          \* committed jobs table: set of [id, url, status]
    txn,           \* statement executed on the shared connection, not yet committed
    lock,          \* thread holding Database._lock, or 0
    tpc,           \* per-thread position
    top,           \* per-thread operation
    tres,          \* per-thread outcome
    used,          \* ids handed out by _new_id
    \* --- SpecFront
    fjobs,         \* jobs table shared by the front-ends: rows [id, url, status, audits]
    fq,            \* per front-end: pipelines waiting in its single-slot executor
    frun,          \* per front-end: the pipeline execution in progress
    flast,         \* per front-end: how its last execution ended
    fnext,         \* submissions made
    \* --- SpecBatch
    bnote,         \* ParsedNote.entries: records [url, group]
    bfrom,         \* from_start argument of BatchRunner.run
    btab,          \* jobs table: url -> [id, status, last_error, retry_count], id 0 = no row
    bpc,           \* position in BatchRunner.run
    bi,            \* 1-based index of the entry in hand
    bitems,        \* BatchResult.items
    bproc,         \* Worker.process calls made: records [index, job, outcome]
    bindex,        \* groups written to index.json / INDEX.md, <<>> = not written
    \* --- SpecClassify
    kmsg,          \* the message behind the link: [exists, text, media]
    kmax,          \* cfg.max_retries
    kjob,          \* jobs row: [status, job_type, retry_count]
    kpc,           \* position in Worker.process
    kattempt,      \* attempt of the running call
    kcls,          \* outcome of classify() in the current attempt, "none" = not called
    kroute,        \* orchestrator the current attempt was dispatched to
    kexc,          \* exception class caught in the current attempt
    kruns,         \* Worker.process calls made
    \* --- SpecLimits
    lkind,         \* orchestrator of the run: "media" | "collect" | "external"
    litems,        \* attachments of the item in album order: [media, size, duration_over]
    li,            \* 1-based index of the attachment in hand
    ldl,           \* indices of the attachments whose download was started, in order
    lpc,           \* position in the run
    lexc,          \* exception class that left the run
    lres,          \* how Worker.process handled it
    \* --- SpecBus
    qsub,          \* EventBus._subscribers
    qq,            \* per subscriber: its asyncio.Queue, oldest event first
    qloop,         \* the captured event loop: "running" | "closed"
    qready,        \* callbacks scheduled on the loop by call_soon_threadsafe: [s, e]
    qpub,          \* per publishing thread: [pc, e, todo] of its publish call
    qrecv,         \* per subscriber: events its SSE generator has read
    qsent,         \* per subscriber: events handed to _safe_put, in order
    qby,           \* publishing thread of each event, in order of publish calls
    \* --- SpecPipeline
    ppc,           \* position in JobService._run_pipeline
    pevents,       \* statuses of the events published for the job, in order
    psent,         \* terminal_sent
    pstatus,       \* jobs.status of the job
    pexit,         \* how the execution ended: "return" | "raise"
    \* --- SpecNotify
    nkind,         \* "collect" | "external" | "ingest" | "batch"
    nrun,          \* the run under a progress callback that may raise
    nref,          \* the same run under a callback that never raises
    ncalls,        \* outcomes of the callback invocations of nrun, in order
    \* --- SpecProgress
    gnow,             \* time.monotonic()
    _last_edit_time,  \* BotProgressCallback._last_edit_time
    _last_status,     \* BotProgressCallback._last_status
    gedits,           \* edit_message_text calls made: [status, time, call, ok]
    gcall             \* the calls of the callback so far: [status, time]

wvars == <<link, msg, max_retries, job, assets, transcript, summary, exports,
           errors, fs, marker, pc, attempt, from_start, exc, result,
           invocations, clsfails, waits, run, calls, kills>>
s0vars == <<sjobs, sresult, squeue, snext>>
fvars == <<fjobs, fq, frun, flast, fnext>>
bvars == <<bnote, bfrom, btab, bpc, bi, bitems, bproc, bindex>>
kvars == <<kmsg, kmax, kjob, kpc, kattempt, kcls, kroute, kexc, kruns>>
lvars == <<lkind, litems, li, ldl, lpc, lexc, lres>>
qvars == <<qsub, qq, qloop, qready, qpub, qrecv, qsent, qby>>
pvars == <<ppc, pevents, psent, pstatus, pexit>>
nvars == <<nkind, nrun, nref, ncalls>>
gvars == <<gnow, _last_edit_time, _last_status, gedits, gcall>>
xvars == <<kvars, lvars, qvars, pvars, nvars, gvars>>
evars == <<fvars, bvars, xvars>>
svars == <<s0vars, evars>>
dvars == <<rows, txn, lock, tpc, top, tres, used>>
vars == <<wvars, svars, dvars>>

\* =========================================================================
\* Spec: Worker.process and the orchestrators
\* =========================================================================

Contents == [text : BOOLEAN, media : {"none", "av", "doc"}]

\* Deterministic output directories (functions of the link only).
CollectedDir == "collected/chan/msg"
ExternalDir == "collected/external/src/vid"
WikiDir == "wiki/chan/msg"
TempDir == "temp"
PdfDir == "pdf"

RunInit == [classifies |-> 0, fetches |-> 0, downloads |-> 0, transcribes |-> 0,
            written |-> {}, existing_types |-> {}, had_marker |-> FALSE,
            cond |-> "none"]

\* the acquisition backend reports access denied or content not found
\* (ChannelPrivateError, MessageIdInvalidError; yt-dlp "video unavailable")
Denied(r) == [r EXCEPT !.cond = "denied"]

StageStatuses == {"analyzing", "collecting", "downloading", "transcribing",
                  "summarizing", "exporting", "saving"}

\* Database.update_job_status: status plus the whitelisted columns given.
update_job_status_mut(j, status, last_error) ==
    [j EXCEPT !.status = status]
update_job_status(j, status, last_error) ==
    IF last_error = NoMsg
    THEN [j EXCEPT !.status = status]
    ELSE [j EXCEPT !.status = status, !.last_error = last_error]

\* Database.increment_retry
increment_retry_mut(j) == [j EXCEPT !.retry_count = 1]
increment_retry(j) == [j EXCEPT !.retry_count = @ + 1]

\* Database.log_error
log_error(e, m) == [n |-> e.n + 1, last |-> m]

\* Database.get_asset: SELECT ... LIMIT 1 -> the first row of the job
get_asset == IF assets = <<>> THEN NULL ELSE assets[1]

\* Database.mark_asset_deleted: every row of the job loses its temp_path
mark_asset_deleted(a) == [i \in DOMAIN a |-> "null"]

export_types == {exports[i] : i \in DOMAIN exports}

\* the cached path of collector/external/ingest run(): get_exports, then
\* save_export only if no row of the export type is stored
save_export_if_missing_mut(es, t) == Append(es, t)
save_export_if_missing(es, t) ==
    IF \E i \in DOMAIN es : es[i] = t THEN es ELSE Append(es, t)

\* classifier.classify on the fetched message
classify(m) ==
    IF ~m.text /\ m.media = "none" THEN "ValueError"
    ELSE IF m.media = "av" THEN "AUDIO_VIDEO"
    ELSE IF m.media = "doc" THEN "TEXT_WITH_DOCS"
    ELSE "TEXT_ONLY"

InitJob(t) == [status |-> "pending", retry_count |-> 0, last_error |-> NoMsg,
               job_type |-> t]

InitOther_f ==
    /\ fjobs = {} /\ fq = <<>> /\ frun = <<>> /\ flast = <<>> /\ fnext = 0
InitOther_b ==
    /\ bnote = <<>> /\ bfrom = FALSE /\ btab = <<>> /\ bpc = "idle" /\ bi = 0
    /\ bitems = <<>> /\ bproc = <<>> /\ bindex = <<>>
InitOther_k ==
    /\ kmsg = [exists |-> FALSE, text |-> FALSE,
               media |-> [cls |-> "none", mime |-> "other", attrs |-> {}]]
    /\ kmax = 0 /\ kjob = [status |-> "pending", job_type |-> "media", retry_count |-> 0]
    /\ kpc = "idle" /\ kattempt = 0 /\ kcls = "none" /\ kroute = "none"
    /\ kexc = "none" /\ kruns = 0
InitOther_l ==
    /\ lkind = "media" /\ litems = <<>> /\ li = 0 /\ ldl = <<>>
    /\ lpc = "idle" /\ lexc = "none" /\ lres = "none"
InitOther_q ==
    /\ qsub = {} /\ qq = <<>> /\ qloop = "running" /\ qready = <<>>
    /\ qpub = <<>> /\ qrecv = <<>> /\ qsent = <<>> /\ qby = <<>>
InitOther_p ==
    /\ ppc = "idle" /\ pevents = <<>> /\ psent = FALSE /\ pstatus = "pending"
    /\ pexit = "none"
InitOther_g ==
    /\ gnow = 0 /\ _last_edit_time = 0 /\ _last_status = NULL
    /\ gedits = <<>> /\ gcall = <<>>
InitOther_n ==
    /\ nkind = "collect" /\ nrun = <<>> /\ nref = <<>> /\ ncalls = <<>>
InitOther_x ==
    InitOther_k /\ InitOther_l /\ InitOther_q /\ InitOther_p /\ InitOther_n
    /\ InitOther_g
InitOther_e == InitOther_f /\ InitOther_b /\ InitOther_x
InitOther_s ==
    /\ sjobs = {} /\ sresult = NULL /\ squeue = <<>> /\ snext = 0
    /\ InitOther_e
InitOther_d ==
    /\ rows = {} /\ txn = NULL /\ lock = 0
    /\ tpc = <<>> /\ top = <<>> /\ tres = <<>> /\ used = {}

Init ==
    /\ link \in {"telegram", "external"}
    /\ msg \in Contents
    /\ link = "external" => msg = [text |-> TRUE, media |-> "av"]
    /\ max_retries \in 0..MaxRetriesBound
    /\ \E t \in {"media", "ingest", "collect", "external"} :
          /\ (link = "external") <=> (t = "external")
          /\ job = InitJob(t)
    /\ assets = <<>> /\ transcript = 0 /\ summary = FALSE /\ exports = <<>>
    /\ errors = [n |-> 0, last |-> NoMsg]
    /\ fs = {} /\ marker = {}
    /\ pc = "idle" /\ attempt = 0 /\ from_start = FALSE /\ exc = NoExc
    /\ result = NULL /\ invocations = 0 /\ clsfails = 0 /\ waits = <<>> /\ run = RunInit
    /\ calls = 0 /\ kills = 0
    /\ InitOther_s /\ InitOther_d

\* ---- Worker.process ------------------------------------------------------

\* What every caller does with a job it finds in status error before it calls
\* Worker.process: update_job_status(pending, retry_count=0), or
\* update_job_status(pending) on the from_start path.
reset_for_retry(j, fs_flag) ==
    IF fs_flag THEN [j EXCEPT !.status = "pending"]
    ELSE [j EXCEPT !.status = "pending", !.retry_count = 0]

\* str(e) of the exception raised in attempt a of call c: every failure has
\* its own message, so a stale last_error is told from a fresh one
ErrMsg(c, a) == c * 10 + a

\* A caller invokes Worker.process(job_id, link, client, from_start).
StartProcess ==
    /\ pc \in {"idle", "returned"}
    /\ calls < MaxCalls
    /\ from_start' \in BOOLEAN
    /\ calls' = calls + 1
    /\ job' = IF job.status = "error" THEN reset_for_retry(job, from_start') ELSE job
    /\ attempt' = 1 /\ pc' = "loop" /\ exc' = NoExc /\ result' = NULL
    /\ invocations' = 0 /\ clsfails' = 0 /\ waits' = <<>> /\ run' = RunInit
    /\ UNCHANGED <<svars, dvars, link, msg, max_retries, assets, transcript, summary,
                   exports, errors, fs, marker, kills>>

\* A front-end fails before it reaches Worker.process (the client is not
\* authorized, or connecting raises): update_job_status(error, last_error)
\* with no Worker involved.
FrontFail ==
    /\ pc \in {"idle", "returned"}
    /\ calls < MaxCalls
    /\ calls' = calls + 1
    /\ job' = update_job_status(job, "error", ErrMsg(calls + 1, 0))
    /\ pc' = "idle" /\ attempt' = 0 /\ exc' = NoExc /\ result' = NULL
    /\ invocations' = 0 /\ clsfails' = 0 /\ waits' = <<>> /\ run' = RunInit
    /\ from_start' = FALSE
    /\ UNCHANGED <<svars, dvars, link, msg, max_retries, assets, transcript, summary,
                   exports, errors, fs, marker, kills>>

\* raise inside the try block of the current attempt
Raise(cls, m) ==
    /\ exc' = [cls |-> cls, msg |-> m,
               src |-> IF pc = "determine" THEN "classify" ELSE "orchestrator"]
    /\ pc' = IF cls = "nonretry" THEN "h_nr_log" ELSE "h_rt_incr"

Fail(cls) == Raise(cls, ErrMsg(calls, attempt))

\* for attempt in range(1, max_attempts + 1): ... ; return None
LoopHead ==
    /\ pc = "loop"
    /\ IF attempt > max_retries
       THEN /\ pc' = "returned" /\ result' = None
            /\ UNCHANGED <<invocations, run>>
       ELSE /\ IF link = "external"
               THEN pc' = "e_start" /\ invocations' = invocations + 1
               ELSE pc' = "determine" /\ UNCHANGED invocations
            /\ run' = RunInit
            /\ UNCHANGED result
    /\ UNCHANGED <<svars, dvars, link, msg, max_retries, job, assets, transcript, summary,
                   exports, errors, fs, marker, attempt, from_start, exc,
                   clsfails, waits, calls, kills>>

\* The orchestrator Worker.process dispatches a Telegram job of type t to.
Route_mut(t) == "m_start"
Route(t) == IF t = "collect" THEN "c_start"
            ELSE IF t = "ingest" THEN "i_start"
            ELSE "m_start"

\* Worker._determine_job_type: the stored type is returned without classifying
existing_type_reused_mut(t) == FALSE
existing_type_reused(t) == t \in {"collect", "external"} \/ t # "media"

\* Worker._determine_job_type followed by the dispatch.
DetermineJobType ==
    /\ pc = "determine"
    /\ IF existing_type_reused(job.job_type)
       THEN /\ pc' = Route(job.job_type) /\ invocations' = invocations + 1
            /\ UNCHANGED <<job, exc, run, clsfails>>
       ELSE /\ \/ \* classify() returns
                  /\ classify(msg) # "ValueError"
                  /\ LET t == IF classify(msg) = "AUDIO_VIDEO" THEN "media" ELSE "ingest"
                     IN /\ job' = [job EXCEPT !.job_type = t]
                        /\ pc' = Route(t)
                  /\ invocations' = invocations + 1
                  /\ run' = [run EXCEPT !.classifies = @ + 1]
                  /\ UNCHANGED <<exc, clsfails>>
               \/ \* classify() raises ValueError -> MediaNotFoundError
                  /\ classify(msg) = "ValueError"
                  /\ Fail("nonretry")
                  /\ clsfails' = clsfails + 1
                  /\ run' = [run EXCEPT !.classifies = @ + 1]
                  /\ UNCHANGED <<job, invocations>>
               \/ \* the fetch inside classify() raises anything else, the
                  \* backend's access-denied and not-found errors included
                  /\ Fail("unexpected")
                  /\ clsfails' = clsfails + 1
                  /\ \/ run' = [run EXCEPT !.classifies = @ + 1]
                     \/ run' = Denied([run EXCEPT !.classifies = @ + 1])
                  /\ UNCHANGED <<job, invocations>>
    /\ UNCHANGED <<svars, dvars, link, msg, max_retries, assets, transcript, summary, exports,
                   errors, fs, marker, attempt, from_start, result, waits,
                   calls, kills>>

\* except NON_RETRYABLE: log_error(...)
NonRetryLog ==
    /\ pc = "h_nr_log"
    /\ errors' = log_error(errors, exc.msg)
    /\ pc' = "h_nr_status"
    /\ UNCHANGED <<svars, dvars, link, msg, max_retries, job, assets, transcript, summary,
                   exports, fs, marker, attempt, from_start, exc, result,
                   invocations, clsfails, waits, run, calls, kills>>

\* except NON_RETRYABLE: update_job_status("error", last_error=msg); return None
NonRetryStatus ==
    /\ pc = "h_nr_status"
    /\ job' = update_job_status(job, "error", exc.msg)
    /\ pc' = "returned" /\ result' = None
    /\ UNCHANGED <<svars, dvars, link, msg, max_retries, assets, transcript, summary, exports,
                   errors, fs, marker, attempt, from_start, exc, invocations, clsfails, waits,
                   run, calls, kills>>

\* except (PipelineError, ...) / except Exception: increment_retry
RetryIncr ==
    /\ pc = "h_rt_incr"
    /\ job' = increment_retry(job)
    /\ pc' = "h_rt_log"
    /\ UNCHANGED <<svars, dvars, link, msg, max_retries, assets, transcript, summary, exports,
                   errors, fs, marker, attempt, from_start, exc, result,
                   invocations, clsfails, waits, run, calls, kills>>

\* ... log_error(step=e.step | "unknown")
RetryLog ==
    /\ pc = "h_rt_log"
    /\ errors' = log_error(errors, exc.msg)
    /\ pc' = "h_rt_decide"
    /\ UNCHANGED <<svars, dvars, link, msg, max_retries, job, assets, transcript, summary,
                   exports, fs, marker, attempt, from_start, exc, result,
                   invocations, clsfails, waits, run, calls, kills>>

\* wait = backoff * (2 ** (attempt - 1))
Wait_mut(a) == retry_backoff_sec * (2 ^ a)
Wait(a) == retry_backoff_sec * (2 ^ (a - 1))

\* attempts are exhausted when attempt >= max_attempts
Exhausted_mut(a, m) == a > m
Exhausted(a, m) == a >= m

\* ... if attempt >= max_attempts: status error, return None; else sleep(wait)
RetryDecide ==
    /\ pc = "h_rt_decide"
    /\ IF Exhausted(attempt, max_retries)
       THEN /\ job' = update_job_status(job, "error", exc.msg)
            /\ pc' = "returned" /\ result' = None
            /\ UNCHANGED <<waits, exc>>
       ELSE /\ waits' = Append(waits, Wait(attempt))
            /\ pc' = "sleep" /\ exc' = NoExc
            /\ UNCHANGED <<job, result>>
    /\ UNCHANGED <<svars, dvars, link, msg, max_retries, assets, transcript, summary, exports,
                   errors, fs, marker, attempt, from_start, invocations, clsfails, run,
                   calls, kills>>

\* time.sleep(wait) returns; the for loop takes the next attempt
Wake ==
    /\ pc = "sleep"
    /\ attempt' = attempt + 1
    /\ pc' = "loop"
    /\ UNCHANGED <<svars, dvars, link, msg, max_retries, job, assets, transcript, summary,
                   exports, errors, fs, marker, from_start, exc, result,
                   invocations, clsfails, waits, run, calls, kills>>

\* The process is killed while Worker.process is running: memory is lost,
\* the store and the files stay as they are.
Kill ==
    /\ pc \notin {"idle", "returned"}
    /\ kills < MaxKills
    /\ kills' = kills + 1
    /\ pc' = "idle" /\ attempt' = 0 /\ exc' = NoExc /\ result' = NULL
    /\ invocations' = 0 /\ clsfails' = 0 /\ waits' = <<>> /\ run' = RunInit
    /\ from_start' = FALSE
    /\ UNCHANGED <<svars, dvars, link, msg, max_retries, job, assets, transcript, summary,
                   exports, errors, fs, marker, calls>>

\* ---- orchestrators: shared pieces ----------------------------------------

\* state no orchestrator step touches
ofix == <<svars, dvars, link, msg, max_retries, calls, kills, attempt, from_start, waits,
          errors, invocations, clsfails>>

Written(d, n) ==
    /\ fs' = fs \cup {<<d, n>>}
    /\ run' = [run EXCEPT !.written = @ \cup {n}]

\* Database.save_transcript inside try/except Exception (collector, external):
\* the INSERT fails on UNIQUE(job_id) when a row exists and the row stays.
save_transcript_swallow(t, n) == IF t = 0 THEN n ELSE t

\* Step 1 of collector/external/ingest run(): the completion-marker check.
MarkerCheck_mut(d, m) == ~from_start /\ <<d, m>> \in fs /\ job.status = "done"
MarkerCheck(d, m) == ~from_start /\ <<d, m>> \in fs

\* ---- CollectorOrchestrator.run -------------------------------------------

\* if not from_start and manifest.json exists: status done ... ; else analyzing
CollectStart ==
    /\ pc = "c_start"
    /\ IF MarkerCheck(CollectedDir, "manifest.json")
       THEN /\ job' = update_job_status(job, "done", NoMsg)
            /\ pc' = "c_cached"
            /\ UNCHANGED run
       ELSE /\ job' = update_job_status(job, "analyzing", NoMsg)
            /\ pc' = "c_fetch"
            /\ run' = [run EXCEPT !.had_marker = <<CollectedDir, "manifest.json">> \in fs]
    /\ UNCHANGED <<ofix, assets, transcript, summary, exports, fs, marker, exc, result>>

\* cached path: save the export row if it is missing, return collected_dir
CollectCached ==
    /\ pc = "c_cached"
    /\ exports' = save_export_if_missing(exports, "collected")
    /\ pc' = "returned" /\ result' = CollectedDir
    /\ UNCHANGED <<ofix, job, assets, transcript, summary, fs, marker, exc, run>>

\* _fetch_message, _fetch_album, content typing, mkdir, status collecting
CollectFetch ==
    /\ pc = "c_fetch"
    /\ \/ /\ msg.text \/ msg.media # "none"
          /\ job' = update_job_status(job, "collecting", NoMsg)
          /\ pc' = "c_text" /\ UNCHANGED exc
          /\ run' = [run EXCEPT !.fetches = @ + 1]
       \/ /\ ~msg.text /\ msg.media = "none"      \* empty message
          /\ Fail("nonretry") /\ UNCHANGED job
          /\ run' = [run EXCEPT !.fetches = @ + 1]
       \/ /\ Fail("nonretry") /\ UNCHANGED job     \* access denied / not found
          /\ run' = Denied([run EXCEPT !.fetches = @ + 1])
       \/ /\ Fail("stage") /\ UNCHANGED job        \* CollectorError(step="fetch")
          /\ run' = [run EXCEPT !.fetches = @ + 1]
    /\ UNCHANGED <<ofix, assets, transcript, summary, exports, fs, marker, result>>

\* text.txt
CollectText ==
    /\ pc = "c_text"
    /\ IF msg.text THEN Written(CollectedDir, "text.txt")
                   ELSE UNCHANGED <<fs, run>>
    /\ pc' = "c_download"
    /\ UNCHANGED <<ofix, job, assets, transcript, summary, exports, marker, exc, result>>

\* _download_media for the message's attachment, then the next stage's status
CollectDownload ==
    /\ pc = "c_download"
    /\ IF msg.media = "none"
       THEN /\ job' = update_job_status(job, "saving", NoMsg)
            /\ pc' = "c_meta"
            /\ UNCHANGED <<fs, run, exc>>
       ELSE \/ /\ fs' = fs \cup {<<CollectedDir, "attachments">>}
               /\ run' = [run EXCEPT !.written = @ \cup {"attachments"},
                                     !.downloads = @ + 1]
               /\ IF msg.media = "av"
                  THEN /\ job' = update_job_status(job, "transcribing", NoMsg)
                       /\ pc' = "c_transcribe"
                  ELSE /\ job' = update_job_status(job, "saving", NoMsg)
                       /\ pc' = "c_meta"
               /\ UNCHANGED exc
            \/ \* size check: MediaLimitExceededError before download_media
               /\ Fail("nonretry") /\ UNCHANGED <<job, fs, run>>
            \/ \* download_media raises -> CollectorError(step="download_media")
               /\ Fail("stage")
               /\ run' = [run EXCEPT !.downloads = @ + 1]
               /\ UNCHANGED <<job, fs>>
    /\ UNCHANGED <<ofix, assets, transcript, summary, exports, marker, result>>

\* _transcribe_files: transcribe, save_transcript (errors swallowed)
CollectTranscribe ==
    /\ pc = "c_transcribe"
    /\ run' = [run EXCEPT !.transcribes = @ + 1]
    /\ \/ /\ transcript' = save_transcript_swallow(transcript, calls)
          /\ pc' = "c_transcript_txt" /\ UNCHANGED exc
       \/ Fail("stage") /\ UNCHANGED transcript
    /\ UNCHANGED <<ofix, job, assets, summary, exports, fs, marker, result>>

\* _transcribe_files: transcript.txt; then status saving
CollectTranscriptTxt ==
    /\ pc = "c_transcript_txt"
    /\ Written(CollectedDir, "transcript.txt")
    /\ job' = update_job_status(job, "saving", NoMsg)
    /\ pc' = "c_meta"
    /\ UNCHANGED <<ofix, assets, transcript, summary, exports, marker, exc, result>>

\* meta.json
CollectMeta ==
    /\ pc = "c_meta"
    /\ Written(CollectedDir, "meta.json")
    /\ pc' = "c_manifest"
    /\ UNCHANGED <<ofix, job, assets, transcript, summary, exports, marker, exc, result>>

\* _build_manifest: text.txt and transcript.txt when produced and on disk,
\* and every downloaded file
build_manifest(d, textName) ==
    {n \in {textName, "transcript.txt"} : n \in run.written /\ <<d, n>> \in fs}
    \cup (run.written \cap {"attachments"})

\* manifest.json, written last
CollectManifest ==
    /\ pc = "c_manifest"
    /\ marker' = build_manifest(CollectedDir, "text.txt")
    /\ Written(CollectedDir, "manifest.json")
    /\ pc' = "c_export"
    /\ UNCHANGED <<ofix, job, assets, transcript, summary, exports, exc, result>>

\* save_export(job_id, "collected", dir)
CollectExport ==
    /\ pc = "c_export"
    /\ exports' = Append(exports, "collected")
    /\ pc' = "c_done"
    /\ UNCHANGED <<ofix, job, assets, transcript, summary, fs, marker, exc, result, run>>

\* status done; return
CollectDone ==
    /\ pc = "c_done"
    /\ job' = update_job_status(job, "done", NoMsg)
    /\ pc' = "returned" /\ result' = CollectedDir
    /\ UNCHANGED <<ofix, assets, transcript, summary, exports, fs, marker, exc, run>>


\* ---- ExternalCollectorOrchestrator.run -----------------------------------

ExternalStart ==
    /\ pc = "e_start"
    /\ IF MarkerCheck(ExternalDir, "manifest.json")
       THEN /\ job' = update_job_status(job, "done", NoMsg)
            /\ pc' = "e_cached"
            /\ UNCHANGED run
       ELSE /\ job' = update_job_status(job, "analyzing", NoMsg)
            /\ pc' = "e_info"
            /\ run' = [run EXCEPT !.had_marker = <<ExternalDir, "manifest.json">> \in fs]
    /\ UNCHANGED <<ofix, assets, transcript, summary, exports, fs, marker, exc, result>>

ExternalCached ==
    /\ pc = "e_cached"
    /\ exports' = save_export_if_missing(exports, "collected")
    /\ pc' = "returned" /\ result' = ExternalDir
    /\ UNCHANGED <<ofix, job, assets, transcript, summary, fs, marker, exc, run>>

\* _get_info, the duration/size limits, mkdir, description.txt, status downloading
ExternalInfo ==
    /\ pc = "e_info"
    /\ \/ /\ IF msg.text THEN fs' = fs \cup {<<ExternalDir, "description.txt">>}
                         ELSE UNCHANGED fs
          /\ run' = [run EXCEPT !.fetches = @ + 1,
                                !.written = IF msg.text THEN @ \cup {"description.txt"} ELSE @]
          /\ job' = update_job_status(job, "downloading", NoMsg)
          /\ pc' = "e_download" /\ UNCHANGED exc
       \/ \* yt-dlp fails or returns nothing -> ExternalCollectorError("fetch_info"),
          \* "video not found or unavailable" included
          /\ Fail("stage")
          /\ \/ run' = [run EXCEPT !.fetches = @ + 1]
             \/ run' = Denied([run EXCEPT !.fetches = @ + 1])
          /\ UNCHANGED <<job, fs>>
       \/ \* duration or size over the limit -> MediaLimitExceededError
          /\ Fail("nonretry")
          /\ run' = [run EXCEPT !.fetches = @ + 1]
          /\ UNCHANGED <<job, fs>>
    /\ UNCHANGED <<ofix, assets, transcript, summary, exports, marker, result>>

\* _download_video; then status transcribing
ExternalDownload ==
    /\ pc = "e_download"
    /\ \/ /\ fs' = fs \cup {<<ExternalDir, "attachments">>}
          /\ run' = [run EXCEPT !.downloads = @ + 1,
                                !.written = @ \cup {"attachments"}]
          /\ job' = update_job_status(job, "transcribing", NoMsg)
          /\ pc' = "e_transcribe" /\ UNCHANGED exc
       \/ /\ Fail("stage")
          /\ run' = [run EXCEPT !.downloads = @ + 1]
          /\ UNCHANGED <<job, fs>>
    /\ UNCHANGED <<ofix, assets, transcript, summary, exports, marker, result>>

\* _transcribe_video: transcribe, transcript.txt
ExternalTranscribe ==
    /\ pc = "e_transcribe"
    /\ \/ /\ fs' = fs \cup {<<ExternalDir, "transcript.txt">>}
          /\ run' = [run EXCEPT !.transcribes = @ + 1,
                                !.written = @ \cup {"transcript.txt"}]
          /\ pc' = "e_save_transcript" /\ UNCHANGED exc
       \/ /\ Fail("stage")
          /\ run' = [run EXCEPT !.transcribes = @ + 1]
          /\ UNCHANGED fs
    /\ UNCHANGED <<ofix, job, assets, transcript, summary, exports, marker, result>>

\* _transcribe_video: save_transcript (errors swallowed); then status saving
ExternalSaveTranscript ==
    /\ pc = "e_save_transcript"
    /\ transcript' = save_transcript_swallow(transcript, calls)
    /\ job' = update_job_status(job, "saving", NoMsg)
    /\ pc' = "e_meta"
    /\ UNCHANGED <<ofix, assets, summary, exports, fs, marker, exc, result, run>>

ExternalMeta ==
    /\ pc = "e_meta"
    /\ Written(ExternalDir, "meta.json")
    /\ pc' = "e_manifest"
    /\ UNCHANGED <<ofix, job, assets, transcript, summary, exports, marker, exc, result>>

\* manifest.json, written last; downloaded_files = what attachments/ holds
ExternalManifest ==
    /\ pc = "e_manifest"
    /\ marker' = {n \in {"description.txt", "transcript.txt"} :
                      n \in run.written /\ <<ExternalDir, n>> \in fs}
                 \cup {n \in {"attachments"} : <<ExternalDir, n>> \in fs}
    /\ Written(ExternalDir, "manifest.json")
    /\ pc' = "e_export"
    /\ UNCHANGED <<ofix, job, assets, transcript, summary, exports, exc, result>>

ExternalExport ==
    /\ pc = "e_export"
    /\ exports' = Append(exports, "collected")
    /\ pc' = "e_done"
    /\ UNCHANGED <<ofix, job, assets, transcript, summary, fs, marker, exc, result, run>>

ExternalDone ==
    /\ pc = "e_done"
    /\ job' = update_job_status(job, "done", NoMsg)
    /\ pc' = "returned" /\ result' = ExternalDir
    /\ UNCHANGED <<ofix, assets, transcript, summary, exports, fs, marker, exc, run>>


\* ---- IngestOrchestrator.run ----------------------------------------------

IngestStart ==
    /\ pc = "i_start"
    /\ IF MarkerCheck(WikiDir, "meta.json")
       THEN /\ job' = update_job_status(job, "done", NoMsg)
            /\ pc' = "i_cached"
            /\ UNCHANGED run
       ELSE /\ job' = update_job_status(job, "collecting", NoMsg)
            /\ pc' = "i_fetch"
            /\ run' = [run EXCEPT !.had_marker = <<WikiDir, "meta.json">> \in fs]
    /\ UNCHANGED <<ofix, assets, transcript, summary, exports, fs, marker, exc, result>>

IngestCached ==
    /\ pc = "i_cached"
    /\ exports' = save_export_if_missing(exports, "ingest_wiki")
    /\ pc' = "returned" /\ result' = WikiDir
    /\ UNCHANGED <<ofix, job, assets, transcript, summary, fs, marker, exc, run>>

\* _fetch_message; mkdir
IngestFetch ==
    /\ pc = "i_fetch"
    /\ \/ /\ pc' = "i_text" /\ UNCHANGED exc
          /\ run' = [run EXCEPT !.fetches = @ + 1]
       \/ /\ Fail("nonretry")               \* access denied / not found / None
          /\ run' = Denied([run EXCEPT !.fetches = @ + 1])
       \/ /\ Fail("stage")                  \* IngestError(step="fetch")
          /\ run' = [run EXCEPT !.fetches = @ + 1]
    /\ UNCHANGED <<ofix, job, assets, transcript, summary, exports, fs, marker, result>>

IngestText ==
    /\ pc = "i_text"
    /\ IF msg.text THEN Written(WikiDir, "text.txt") ELSE UNCHANGED <<fs, run>>
    /\ pc' = "i_download"
    /\ UNCHANGED <<ofix, job, assets, transcript, summary, exports, marker, exc, result>>

\* _download_media; every exception becomes IngestError(step="download_media")
IngestDownload ==
    /\ pc = "i_download"
    /\ IF msg.media = "none"
       THEN pc' = "i_meta" /\ UNCHANGED <<fs, run, exc>>
       ELSE \/ /\ fs' = fs \cup {<<WikiDir, "attachments">>}
               /\ run' = [run EXCEPT !.written = @ \cup {"attachments"},
                                     !.downloads = @ + 1]
               /\ pc' = "i_meta" /\ UNCHANGED exc
            \/ /\ Fail("stage")
               /\ run' = [run EXCEPT !.downloads = @ + 1]
               /\ UNCHANGED fs
    /\ UNCHANGED <<ofix, job, assets, transcript, summary, exports, marker, result>>

\* meta.json: the completion marker of an ingest job, listing the files
IngestMeta ==
    /\ pc = "i_meta"
    /\ marker' = run.written \cap {"attachments"}
    /\ Written(WikiDir, "meta.json")
    /\ pc' = "i_export"
    /\ UNCHANGED <<ofix, job, assets, transcript, summary, exports, exc, result>>

IngestExport ==
    /\ pc = "i_export"
    /\ exports' = Append(exports, "ingest_wiki")
    /\ pc' = "i_done"
    /\ UNCHANGED <<ofix, job, assets, transcript, summary, fs, marker, exc, result, run>>

IngestDone ==
    /\ pc = "i_done"
    /\ job' = update_job_status(job, "done", NoMsg)
    /\ pc' = "returned" /\ result' = WikiDir
    /\ UNCHANGED <<ofix, assets, transcript, summary, exports, fs, marker, exc, run>>


\* ---- Orchestrator.run (media) --------------------------------------------

MediaFile == <<TempDir, "media">>

\* Step A guard: download unless a live asset row points at an existing file
NeedDownload_mut == from_start \/ get_asset = NULL
NeedDownload ==
    from_start \/ get_asset = NULL \/ get_asset = "null" \/ MediaFile \notin fs

MediaStart ==
    /\ pc = "m_start"
    /\ IF NeedDownload
       THEN /\ job' = update_job_status(job, "downloading", NoMsg)
            /\ pc' = "m_download"
       ELSE /\ pc' = "m_transcript_check"
            /\ UNCHANGED job
    /\ UNCHANGED <<ofix, assets, transcript, summary, exports, fs, marker, exc, result, run>>

\* TelegramDownloader.download: fetch the message, check the limits, reuse a
\* temp file of the expected size or download the payload
MediaDownload ==
    /\ pc = "m_download"
    /\ \/ /\ MediaFile \in fs               \* file already downloaded: cached
          /\ run' = [run EXCEPT !.fetches = @ + 1]
          /\ pc' = "m_save_asset" /\ UNCHANGED <<fs, exc>>
       \/ /\ fs' = fs \cup {MediaFile}
          /\ run' = [run EXCEPT !.fetches = @ + 1, !.downloads = @ + 1]
          /\ pc' = "m_save_asset" /\ UNCHANGED exc
       \/ \* access denied, not found, unsupported, limit exceeded: re-raised
          /\ Fail("nonretry")
          /\ \/ run' = [run EXCEPT !.fetches = @ + 1]
             \/ run' = Denied([run EXCEPT !.fetches = @ + 1])
          /\ UNCHANGED fs
       \/ \* anything else -> PipelineError(step="download")
          /\ Fail("stage")
          /\ run' = [run EXCEPT !.fetches = @ + 1, !.downloads = @ + 1]
          /\ UNCHANGED fs
    /\ UNCHANGED <<ofix, job, assets, transcript, summary, exports, marker, result>>

\* save_asset: INSERT a new assets row
MediaSaveAsset ==
    /\ pc = "m_save_asset"
    /\ assets' = Append(assets, "live")
    /\ pc' = "m_transcript_check"
    /\ UNCHANGED <<ofix, job, transcript, summary, exports, fs, marker, exc, result, run>>

\* Step B guard: transcript_record = None if from_start else get_transcript
MediaTranscriptCheck ==
    /\ pc = "m_transcript_check"
    /\ IF from_start \/ transcript = 0
       THEN /\ job' = update_job_status(job, "transcribing", NoMsg)
            /\ pc' = "m_transcribe"
       ELSE /\ pc' = "m_summary_check"
            /\ UNCHANGED job
    /\ UNCHANGED <<ofix, assets, transcript, summary, exports, fs, marker, exc, result, run>>

\* transcriber.transcribe(media_path)
MediaTranscribe ==
    /\ pc = "m_transcribe"
    /\ run' = [run EXCEPT !.transcribes = @ + 1]
    /\ \/ pc' = "m_save_transcript" /\ UNCHANGED exc
       \/ Fail("stage")
    /\ UNCHANGED <<ofix, job, assets, transcript, summary, exports, fs, marker, result>>

\* save_transcript outside any try: UNIQUE(job_id) raises IntegrityError
MediaSaveTranscript ==
    /\ pc = "m_save_transcript"
    /\ IF transcript = 0
       THEN /\ transcript' = calls
            /\ pc' = "m_cleanup" /\ UNCHANGED exc
       ELSE /\ Fail("unexpected")
            /\ UNCHANGED transcript
    /\ UNCHANGED <<ofix, job, assets, summary, exports, fs, marker, result, run>>

\* cleanup_after_success(media_path)
MediaCleanup ==
    /\ pc = "m_cleanup"
    /\ fs' = fs \ {MediaFile}
    /\ pc' = "m_mark_deleted"
    /\ UNCHANGED <<ofix, job, assets, transcript, summary, exports, marker, exc, result, run>>

\* mark_asset_deleted(job_id)
MediaMarkDeleted ==
    /\ pc = "m_mark_deleted"
    /\ assets' = mark_asset_deleted(assets)
    /\ pc' = "m_summary_check"
    /\ UNCHANGED <<ofix, job, transcript, summary, exports, fs, marker, exc, result, run>>

\* Step C guard: summary_record = None if from_start else get_summary
MediaSummaryCheck ==
    /\ pc = "m_summary_check"
    /\ IF from_start \/ ~summary
       THEN /\ job' = update_job_status(job, "summarizing", NoMsg)
            /\ pc' = "m_summarize"
       ELSE /\ pc' = "m_export_start"
            /\ UNCHANGED job
    /\ UNCHANGED <<ofix, assets, transcript, summary, exports, fs, marker, exc, result, run>>

\* summarizer.summarize(transcript)
MediaSummarize ==
    /\ pc = "m_summarize"
    /\ \/ pc' = "m_save_summary" /\ UNCHANGED exc
       \/ Fail("stage")
    /\ UNCHANGED <<ofix, job, assets, transcript, summary, exports, fs, marker, result, run>>

\* save_summary outside any try: UNIQUE(job_id) raises IntegrityError
MediaSaveSummary ==
    /\ pc = "m_save_summary"
    /\ IF ~summary
       THEN /\ summary' = TRUE
            /\ pc' = "m_export_start" /\ UNCHANGED exc
       ELSE /\ Fail("unexpected")
            /\ UNCHANGED summary
    /\ UNCHANGED <<ofix, job, assets, transcript, exports, fs, marker, result, run>>

\* Step D: exports = [] if from_start else get_exports; status exporting
MediaExportStart ==
    /\ pc = "m_export_start"
    /\ run' = [run EXCEPT !.existing_types = IF from_start THEN {} ELSE export_types]
    /\ job' = update_job_status(job, "exporting", NoMsg)
    /\ pc' = "m_export_transcript"
    /\ UNCHANGED <<ofix, assets, transcript, summary, exports, fs, marker, exc, result>>

\* one PDF: export_<t>() and save_export unless the type is already exported
MediaExport(t, nextpc) ==
    IF t \in run.existing_types
    THEN pc' = nextpc /\ UNCHANGED <<exports, fs, exc>>
    ELSE \/ /\ fs' = fs \cup {<<PdfDir, t>>}
            /\ exports' = Append(exports, t)
            /\ pc' = nextpc /\ UNCHANGED exc
         \/ Fail("stage") /\ UNCHANGED <<exports, fs>>

MediaExportTranscript ==
    /\ pc = "m_export_transcript"
    /\ MediaExport("transcript", "m_export_summary")
    /\ UNCHANGED <<ofix, job, assets, transcript, summary, marker, result, run>>

MediaExportSummary ==
    /\ pc = "m_export_summary"
    /\ MediaExport("summary", "m_done")
    /\ UNCHANGED <<ofix, job, assets, transcript, summary, marker, result, run>>

MediaDone ==
    /\ pc = "m_done"
    /\ job' = update_job_status(job, "done", NoMsg)
    /\ pc' = "returned" /\ result' = PdfDir
    /\ UNCHANGED <<ofix, assets, transcript, summary, exports, fs, marker, exc, run>>


\* ---- environment between Worker.process calls ---------------------------

\* cleanup_media: unlinks audio/video files under collected/ past the age limit
CleanupMedia ==
    /\ pc \in {"idle", "returned"}
    /\ \E d \in {CollectedDir, ExternalDir} :
          /\ <<d, "attachments">> \in fs
          /\ msg.media = "av"
          /\ fs' = fs \ {<<d, "attachments">>}
    /\ pc' = "idle"
    /\ UNCHANGED <<svars, dvars, link, msg, max_retries, job, assets, transcript, summary,
                   exports, errors, marker, attempt, from_start, exc, result,
                   invocations, clsfails, waits, run, calls, kills>>

\* ---- specification --------------------------------------------------------

Next ==
    \/ StartProcess \/ FrontFail
    \/ LoopHead
    \/ DetermineJobType
    \/ NonRetryLog
    \/ NonRetryStatus
    \/ RetryIncr
    \/ RetryLog
    \/ RetryDecide
    \/ Wake
    \/ Kill
    \/ CleanupMedia
    \/ CollectStart
    \/ CollectCached
    \/ CollectFetch
    \/ CollectText
    \/ CollectDownload
    \/ CollectTranscribe
    \/ CollectTranscriptTxt
    \/ CollectMeta
    \/ CollectManifest
    \/ CollectExport
    \/ CollectDone
    \/ ExternalStart
    \/ ExternalCached
    \/ ExternalInfo
    \/ ExternalDownload
    \/ ExternalTranscribe
    \/ ExternalSaveTranscript
    \/ ExternalMeta
    \/ ExternalManifest
    \/ ExternalExport
    \/ ExternalDone
    \/ IngestStart
    \/ IngestCached
    \/ IngestFetch
    \/ IngestText
    \/ IngestDownload
    \/ IngestMeta
    \/ IngestExport
    \/ IngestDone
    \/ MediaStart
    \/ MediaDownload
    \/ MediaSaveAsset
    \/ MediaTranscriptCheck
    \/ MediaTranscribe
    \/ MediaSaveTranscript
    \/ MediaCleanup
    \/ MediaMarkDeleted
    \/ MediaSummaryCheck
    \/ MediaSummarize
    \/ MediaSaveSummary
    \/ MediaExportStart
    \/ MediaExportTranscript
    \/ MediaExportSummary
    \/ MediaDone

Spec == Init /\ [][Next]_vars

\* =========================================================================
\* Properties of Spec
\* =========================================================================

Returned == pc = "returned"
Artifact == result \notin {NULL, None}

\* C1 (as stated): a non-retryable error on the first attempt yields exactly
\* one orchestrator invocation.
C1_Original ==
    (Returned /\ exc.cls = "nonretry" /\ attempt = 1) => invocations = 1

\* C1 (amended): once classification or an orchestrator raises a
\* non-retryable error, no step up to the return starts an attempt, sleeps or
\* touches retry_count; process returns None with the job in status error and
\* last_error the message of that error; when this happens on the first
\* attempt the orchestrator was invoked once if it raised the error and not
\* at all if classification raised it.
C1_NonRetryable ==
    [][ (exc'.cls = "nonretry" /\ pc' \in {"h_nr_log", "h_nr_status", "returned"})
        => /\ job'.retry_count = job.retry_count
           /\ attempt' = attempt
           /\ waits' = waits
           /\ invocations' = invocations
           /\ exc'.msg = calls * 10 + attempt
           /\ (pc' = "returned" /\ pc # "returned")
                 => /\ result' = None
                    /\ job'.status = "error"
                    /\ job'.last_error = exc'.msg
                    /\ errors'.last = exc'.msg
                    /\ Len(waits') = attempt - 1
                    /\ attempt = 1 =>
                          invocations' = (IF exc'.src = "classify" THEN 0 ELSE 1)
      ]_vars

C1_Witness ==
    /\ Returned /\ exc.cls = "nonretry" /\ exc.src = "orchestrator"
    /\ attempt = 1 /\ invocations = 1 /\ job.status = "error"

\* C2 (as stated): when every attempt fails retryably the orchestrator is
\* invoked exactly max_attempts times.
C2_Original ==
    (Returned /\ exc.cls \in {"stage", "unexpected"}) => invocations = max_retries

\* C2 (amended): when process returns after every attempt failed with a stage
\* error or an unexpected exception, exactly max_attempts attempts were made,
\* the orchestrator was invoked on each of them except those that failed in
\* job-type determination, the waits were backoff * 2^(k-1) for k = 1 ..
\* max_attempts - 1 (doubling, strictly increasing, none after the last
\* attempt); a successful attempt k returns after exactly k - 1 waits.
C2_Backoff ==
    /\ \A k \in DOMAIN waits : waits[k] = retry_backoff_sec * (2 ^ (k - 1))
    /\ \A k \in DOMAIN waits : k > 1 => waits[k] = 2 * waits[k - 1] /\ waits[k] > waits[k - 1]
    /\ (Returned /\ exc.cls \in {"stage", "unexpected"})
          => /\ attempt = max_retries
             /\ invocations + clsfails = max_retries
             /\ Len(waits) = max_retries - 1
             /\ result = None
    /\ (Returned /\ Artifact) => Len(waits) = attempt - 1 /\ attempt <= max_retries
    /\ pc = "sleep" => Len(waits) = attempt /\ attempt < max_retries

C2_Witness ==
    /\ Returned /\ exc.cls = "unexpected" /\ max_retries = 3
    /\ waits = <<30, 60>> /\ invocations = 2 /\ clsfails = 1

\* C3 (as stated): whenever process returns, a non-None result implies status
\* done and a None result implies status error with last_error set.
C3_Original ==
    Returned => /\ Artifact => job.status = "done"
                /\ result = None => (job.status = "error" /\ job.last_error # NoMsg)

MarkerKinds == {<<"c", CollectedDir, "manifest.json">>,
                <<"e", ExternalDir, "manifest.json">>,
                <<"i", WikiDir, "meta.json">>}
StartPc(k) == IF k = "c" THEN "c_start" ELSE IF k = "e" THEN "e_start" ELSE "i_start"
CachedPc(k) == IF k = "c" THEN "c_cached" ELSE IF k = "e" THEN "e_cached" ELSE "i_cached"

BeforeMarkerPcs(k) ==
    IF k = "c" THEN {"c_fetch", "c_text", "c_download", "c_transcribe",
                     "c_transcript_txt", "c_meta", "c_manifest"}
    ELSE IF k = "e" THEN {"e_info", "e_download", "e_transcribe",
                          "e_save_transcript", "e_meta", "e_manifest"}
    ELSE {"i_fetch", "i_text", "i_download", "i_meta"}

AfterMarkerPcs(k) ==
    IF k = "c" THEN {"c_export", "c_done"}
    ELSE IF k = "e" THEN {"e_export", "e_done"}
    ELSE {"i_export", "i_done"}

\* the artifact files a complete run over the message leaves next to the marker
ExpectedArtifacts(k) ==
    IF k = "c" THEN {n \in {"text.txt"} : msg.text}
                    \cup {n \in {"attachments"} : msg.media # "none"}
                    \cup {n \in {"transcript.txt"} : msg.media = "av"}
                    \cup {"meta.json"}
    ELSE IF k = "e" THEN {n \in {"description.txt"} : msg.text}
                         \cup {"attachments", "transcript.txt", "meta.json"}
    ELSE {n \in {"text.txt"} : msg.text}
         \cup {n \in {"attachments"} : msg.media # "none"}

\* C6 (as stated): once a run has written its marker every other artifact
\* file of that run is on disk, and at every point at which a run can be
\* killed before it writes its marker there is no marker on disk for a later
\* run without from_start to find.
C6_Original ==
    \A mk \in MarkerKinds :
       /\ pc \in AfterMarkerPcs(mk[1])
             => \A n \in ExpectedArtifacts(mk[1]) : <<mk[2], n>> \in fs
       /\ pc \in BeforeMarkerPcs(mk[1]) => <<mk[2], mk[3]>> \notin fs

\* C7 (as stated): a rerun without from_start does not report the job done
\* while an artifact its completion marker enumerates is missing.
C7_Original ==
    (Returned /\ Artifact /\ ~from_start /\ job.status = "done")
       => \A n \in marker : <<result, n>> \in fs

\* C8 (as stated): the run after an interruption, without from_start, does
\* not repeat a stage whose output is already persisted: no download once
\* the transcript row is stored (media), no fetch once text or attachments
\* of the message are on disk (collect, ingest), no metadata fetch once the
\* payload is on disk (external).
C8_Original ==
    (kills > 0 /\ ~from_start /\ attempt = 1) =>
       /\ pc = "m_download" => transcript = 0
       /\ pc = "c_fetch" => \A n \in {"text.txt", "attachments"} : <<CollectedDir, n>> \notin fs
       /\ pc = "i_fetch" => \A n \in {"text.txt", "attachments"} : <<WikiDir, n>> \notin fs
       /\ pc = "e_info" => <<ExternalDir, "attachments">> \notin fs

\* the except branches of Worker.process that retry
RetryHandler == {"h_rt_incr", "h_rt_log", "h_rt_decide"}

\* C16 (as stated): a job in status error (last_error set by the failure),
\* reset to pending with retry_count 0 and run again without from_start,
\* ends in status done when no collaborator call of the run fails.
C16_Original ==
    (Returned /\ ~from_start /\ job.last_error # NoMsg /\ job.retry_count = 0
       /\ attempt = 1 /\ exc = NoExc)
       => (job.status = "done" /\ Artifact)

\* C17 (as stated): an access-denied or content-not-found condition reported
\* by the acquisition backend is mapped to a non-retryable error for every
\* job kind: the attempt is not handled by a retrying branch, no backoff
\* sleep follows it, and the call ends with status error.
C17_Original ==
    run.cond = "denied" =>
       /\ pc \notin RetryHandler \cup {"sleep"}
       /\ Returned => (job.status = "error" /\ result = None)

\* C19 (as stated): at every point after an attempt of Worker.process has
\* failed, the job's last_error is the message of the most recent failed
\* attempt; here at the point where the backoff sleep after the failed
\* attempt has begun.
C19_Original ==
    pc = "sleep" => job.last_error = ErrMsg(calls, attempt)

C28_Original ==
    (~from_start /\ transcript # 0 /\ transcript < calls) => run.transcribes = 0

\* asset rows of the job whose temp_path is not cleared
LiveAssets == {i \in DOMAIN assets : assets[i] = "live"}

\* C29 (as stated): once a Worker.process call on the job has returned, the
\* job has at most one live asset row, and get_asset returns the live row
\* whenever there is one.
C29_Original ==
    Returned =>
       /\ Cardinality(LiveAssets) <= 1
       /\ LiveAssets # {} => get_asset = "live"

\* attempts of the running call that have gone through increment_retry
Incremented ==
    (attempt - 1)
      + (IF pc \in {"h_rt_log", "h_rt_decide", "sleep"}
            \/ (Returned /\ exc # NoExc /\ exc.cls # "nonretry")
         THEN 1 ELSE 0)

\* C30: retry_count grows by exactly one for each attempt that fails with a
\* retryable or unexpected error and by nothing else: inside a call it is
\* the value at the start of the call plus the number of such attempts
\* (successful attempts and non-retryable failures leave it alone); it
\* returns to 0 only when a caller resets a job in status error without
\* from_start; so a call on a new or freshly reset job whose attempts all
\* fail retryably ends with retry_count = max_attempts.
C30_RetryCount ==
    /\ [][(pc \notin {"idle", "returned"} /\ pc' # "idle")
            => (job'.retry_count - Incremented' = job.retry_count - Incremented)]_vars
    /\ [][(pc \in {"idle", "returned"})
            => (job'.retry_count =
                  IF pc' = "loop" /\ job.status = "error" /\ ~from_start'
                  THEN 0 ELSE job.retry_count)]_vars
    /\ [][(pc \notin {"idle", "returned"} /\ pc' = "idle")
            => job'.retry_count = job.retry_count]_vars
    /\ []((Returned /\ calls = 1 /\ kills = 0 /\ exc # NoExc
             /\ exc.cls # "nonretry") => job.retry_count = max_retries)

\* a job that ended in error is reset and all max_attempts >= 2 attempts of
\* the new call fail retryably
C30_Witness ==
    /\ Returned /\ calls = 2 /\ ~from_start /\ max_retries >= 2
    /\ exc # NoExc /\ exc.cls # "nonretry"
    /\ job.retry_count = max_retries /\ Incremented = max_retries

\* C35 (as stated): a from_start rerun of a media job that already has asset,
\* transcript, summary and export rows ends in status done whenever every
\* collaborator call succeeds; here for a single-attempt call that ended
\* without a classification, stage or non-retryable error.
C35_Original ==
    (/\ Returned /\ kills = 0 /\ calls = 2 /\ from_start /\ max_retries = 1
     /\ job.job_type = "media" /\ msg.media = "av"
     /\ assets # <<>> /\ transcript = 1 /\ summary /\ exports # <<>>
     /\ (exc = NoExc \/ (exc.cls = "unexpected" /\ exc.src = "orchestrator")))
       => job.status = "done"

\* number of export rows of type t in es
ExportCount(es, t) == Cardinality({i \in DOMAIN es : es[i] = t})

\* export types an orchestrator of job type t stores, and the path it returns
ArtifactKinds(t) == IF t = "media" THEN {"transcript", "summary"}
                    ELSE IF t = "ingest" THEN {"ingest_wiki"}
                    ELSE {"collected"}
ArtifactPath(t) == IF t = "media" THEN PdfDir
                   ELSE IF t = "ingest" THEN WikiDir
                   ELSE IF t = "external" THEN ExternalDir
                   ELSE CollectedDir

\* C31: a run without from_start that returns an artifact returns the path
\* fixed by the job's type and leaves a row of each of its export types; no
\* step of a call without from_start adds a row of an export type that
\* already has one, and the type of a done job does not change: repeated
\* runs on a completed job return the same path and never duplicate rows.
C31_NoDuplicateExports ==
    /\ [](Returned /\ Artifact /\ ~from_start
            => /\ result = ArtifactPath(job.job_type)
               /\ \A t \in ArtifactKinds(job.job_type) : ExportCount(exports, t) >= 1)
    /\ [][~from_start'
            => \/ exports' = exports
               \/ \E t \in {"collected", "ingest_wiki", "transcript", "summary"} :
                     ExportCount(exports, t) = 0 /\ exports' = Append(exports, t)]_vars
    /\ [][job.status = "done" /\ ~from_start' => job'.job_type = job.job_type]_vars

\* a second call without from_start on a job the first call completed
\* returned through the cached path with one export row
C31_Witness ==
    /\ Returned /\ calls = 2 /\ kills = 0 /\ ~from_start
    /\ result = ArtifactPath(job.job_type) /\ job.job_type # "media"
    /\ run.fetches = 0 /\ job.status = "done"
    /\ \A t \in ArtifactKinds(job.job_type) : ExportCount(exports, t) = 1

\* C34 (as stated): in every reachable state a job with status done has at
\* least one export row.
C34_Original == job.status = "done" => exports # <<>>

\* pcs of an attempt after the dispatch decision: inside an orchestrator, in
\* an except branch or in the backoff sleep
Dispatched == pc \notin {"idle", "loop", "determine", "returned"}

\* C32 (as stated): every attempt of Worker.process invokes exactly one
\* orchestrator.
C32_Original == Dispatched => invocations = attempt

\* C32: every attempt whose job type determination does not raise invokes
\* exactly one orchestrator: the external one for an external link whatever
\* type is stored, otherwise the collector for collect, the ingest
\* orchestrator for ingest and the media orchestrator for media; an attempt
\* whose classification raises invokes none; the artifact returned is the
\* one of the orchestrator invoked.
C32_Dispatch ==
    /\ [](Dispatched => invocations + clsfails = attempt)
    /\ [][invocations' # invocations /\ invocations' # 0
            => /\ invocations' = invocations + 1
               /\ link = "external" => pc' = "e_start"
               /\ link # "external" /\ job'.job_type = "collect" => pc' = "c_start"
               /\ link # "external" /\ job'.job_type = "ingest" => pc' = "i_start"
               /\ link # "external" /\ job'.job_type = "media" => pc' = "m_start"]_vars
    /\ [][clsfails' = clsfails + 1 => invocations' = invocations /\ link # "external"]_vars
    /\ [](Returned /\ Artifact
            => result = IF link = "external" THEN ExternalDir
                        ELSE ArtifactPath(job.job_type))

\* a second attempt dispatched a collect job to the collector, which returned
\* its directory
C32_Witness ==
    /\ Returned /\ attempt = 2 /\ invocations = 2 /\ clsfails = 0
    /\ link = "telegram" /\ job.job_type = "collect" /\ result = CollectedDir

\* ---- SpecCancel: Worker.process with an external writer of the status -----

\* Another process writes the job's status (cancelled is one of the statuses
\* of the jobs table) while Worker.process is in time.sleep(wait).
ExternalCancel ==
    /\ pc = "sleep"
    /\ job.status # "cancelled"
    /\ job' = update_job_status(job, "cancelled", NoMsg)
    /\ UNCHANGED <<svars, dvars, link, msg, max_retries, assets, transcript, summary,
                   exports, errors, fs, marker, pc, attempt, from_start, exc, result,
                   invocations, clsfails, waits, run, calls, kills>>

NextCancel == Next \/ ExternalCancel

SpecCancel == Init /\ [][NextCancel]_vars

\* C37 (as stated): once the status is set to cancelled during the backoff
\* sleep, the running Worker.process call invokes no further orchestrator
\* and leaves the status as it was set.
C37_Original ==
    [][job.status = "cancelled" /\ pc \notin {"idle", "returned"}
         => job'.status = "cancelled" /\ invocations' <= invocations]_vars

\* =========================================================================
\* SpecSubmit: JobService.submit and the single-slot executor
\* =========================================================================

MaxSubmits == 3           \* submit calls in one behaviour
Urls == {"u1", "u2"}

\* statuses JobService.submit answers with "Already in progress"
WebInProgress == {"downloading", "transcribing", "exporting", "collecting"}

\* statuses the Worker and the orchestrators write while a pipeline runs
PipelineStatuses == StageStatuses \cup {"done", "error"}

NoSubmit == [url |-> NULL, from_start |-> FALSE, prior |-> 0, outcome |-> NULL,
             job_id |-> 0, status |-> NULL]

\* Database.get_job_by_url on the jobs table
get_job_by_url(tbl, u) == {r \in tbl : r.url = u}

\* the UNIQUE constraint on jobs.url, checked by the INSERT of create_job
url_taken_mut(tbl, u) == FALSE
url_taken(tbl, u) == \E r \in tbl : r.url = u

\* UPDATE jobs SET status = ? [, retry_count = 0] WHERE id = ?
set_status(tbl, id, st) ==
    {IF r.id = id THEN [r EXCEPT !.status = st] ELSE r : r \in tbl}

InitOther_w ==
    /\ link = "telegram" /\ msg = [text |-> TRUE, media |-> "none"]
    /\ max_retries = 3 /\ job = InitJob("media")
    /\ assets = <<>> /\ transcript = 0 /\ summary = FALSE /\ exports = <<>>
    /\ errors = [n |-> 0, last |-> NoMsg]
    /\ fs = {} /\ marker = {}
    /\ pc = "idle" /\ attempt = 0 /\ from_start = FALSE /\ exc = NoExc
    /\ result = NULL /\ invocations = 0 /\ clsfails = 0 /\ waits = <<>>
    /\ run = RunInit /\ calls = 0 /\ kills = 0

InitSubmit ==
    /\ sjobs = {} /\ sresult = NoSubmit /\ squeue = <<>> /\ snext = 0
    /\ InitOther_w /\ InitOther_d /\ InitOther_e

\* JobService.submit(url, from_start)
Submit(u, f) ==
    /\ snext < MaxSubmits
    /\ snext' = snext + 1
    /\ LET existing == get_job_by_url(sjobs, u)
           ex == CHOOSE r \in existing : TRUE
           prior == IF existing = {} THEN 0 ELSE ex.id
           res(o, id, st) == [url |-> u, from_start |-> f, prior |-> prior,
                              outcome |-> o, job_id |-> id, status |-> st]
       IN IF existing # {} /\ ~f /\ ex.status = "done"
          THEN /\ sresult' = res("ok", ex.id, "done")
               /\ UNCHANGED <<sjobs, squeue>>
          ELSE IF existing # {} /\ ~f /\ ex.status \in WebInProgress
          THEN /\ sresult' = res("ok", ex.id, ex.status)
               /\ UNCHANGED <<sjobs, squeue>>
          ELSE IF existing # {} /\ ~f /\ ex.status = "error"
          THEN /\ sjobs' = set_status(sjobs, ex.id, "pending")
               /\ squeue' = Append(squeue, ex.id)
               /\ sresult' = res("ok", ex.id, "pending")
          ELSE IF existing # {} /\ f
          THEN /\ sjobs' = set_status(sjobs, ex.id, "pending")
               /\ squeue' = Append(squeue, ex.id)
               /\ sresult' = res("ok", ex.id, "pending")
          ELSE \* create_job(link)
               IF url_taken(sjobs, u)
               THEN /\ sresult' = res("IntegrityError", 0, NULL)
                    /\ UNCHANGED <<sjobs, squeue>>
               ELSE /\ sjobs' = sjobs \cup {[id |-> snext + 1, url |-> u,
                                             status |-> "pending"]}
                    /\ squeue' = Append(squeue, snext + 1)
                    /\ sresult' = res("ok", snext + 1, "pending")
    /\ UNCHANGED <<wvars, dvars, evars>>

SubmitAny == \E u \in Urls, f \in BOOLEAN : Submit(u, f)

\* the pipeline at the head of the executor queue writes a status
PipelineStatus ==
    /\ squeue # <<>>
    /\ \E st \in PipelineStatuses : sjobs' = set_status(sjobs, Head(squeue), st)
    /\ UNCHANGED <<sresult, squeue, snext, wvars, dvars, evars>>

\* _run_pipeline returns; the executor takes the next queued pipeline
PipelineReturn ==
    /\ squeue # <<>>
    /\ \E r \in sjobs : r.id = Head(squeue) /\ r.status \in {"done", "error"}
    /\ squeue' = Tail(squeue)
    /\ UNCHANGED <<sjobs, sresult, snext, wvars, dvars, evars>>

\* the server process is stopped and started again: the executor queue is
\* lost, the jobs table stays
Restart ==
    /\ squeue # <<>>
    /\ squeue' = <<>>
    /\ UNCHANGED <<sjobs, sresult, snext, wvars, dvars, evars>>

NextSubmit == SubmitAny \/ PipelineStatus \/ PipelineReturn \/ Restart

SpecSubmit == InitSubmit /\ [][NextSubmit]_vars

\* C4 (as stated): whatever the status of the existing job, a submit of its
\* reference without from_start returns the existing job id, leaves exactly
\* one row for the reference and raises no store error.
C4_Original ==
    (sresult.prior # 0 /\ ~sresult.from_start)
       => /\ sresult.outcome = "ok"
          /\ sresult.job_id = sresult.prior
          /\ Cardinality(get_job_by_url(sjobs, sresult.url)) = 1

\* =========================================================================
\* SpecDb: threads calling Database methods on the one shared connection
\* =========================================================================

NThreads == 3             \* concurrent callers
Threads == 1 .. NThreads
DbUrls == {"a", "b"}
FirstJob == [id |-> 1, url |-> "u0", status |-> "pending", retry_count |-> 0]
NoTxn == [kind |-> "none", id |-> 0, url |-> NULL, status |-> NULL]
NoRes == [seen |-> 0, outcome |-> NULL, id |-> 0]

\* what one caller does: submit a reference (get_job_by_url, then create_job
\* when nothing was found), update_job_status / increment_retry on the first
\* job, or list_jobs
Programs ==
    [call : {"get_job_by_url"}, url : DbUrls, status : {NULL}]
      \cup [call : {"update_job_status"}, url : {"u0"},
            status : {"downloading", "done"}]
      \cup [call : {"increment_retry"}, url : {"u0"}, status : {NULL}]
      \cup [call : {"list_jobs"}, url : {NULL}, status : {NULL}]

InitDb ==
    /\ rows = {FirstJob} /\ txn = NoTxn /\ lock = 0 /\ used = {1}
    /\ top \in [Threads -> Programs]
    /\ tpc = [t \in Threads |-> "wait"]
    /\ tres = [t \in Threads |-> NoRes]
    /\ InitOther_w /\ InitOther_s

\* uuid4: a value no earlier call returned
_new_id(u) == CHOOSE i \in 1 .. (Cardinality(u) + 1) : i \notin u

\* PRIMARY KEY on jobs.id and UNIQUE on jobs.url
insert_conflict(tbl, id, u) == url_taken(tbl, u) \/ \E r \in tbl : r.id = id

\* the table with the statement of the open transaction applied
apply(tbl, x) ==
    IF x.kind = "insert"
    THEN tbl \cup {[id |-> x.id, url |-> x.url, status |-> "pending",
                    retry_count |-> 0]}
    ELSE IF x.kind = "status"
    THEN {IF r.id = x.id THEN [r EXCEPT !.status = x.status] ELSE r : r \in tbl}
    ELSE IF x.kind = "retry"
    THEN {IF r.id = x.id THEN [r EXCEPT !.retry_count = @ + 1] ELSE r : r \in tbl}
    ELSE tbl

\* conn.commit() at the end of _write
commit_mut(tbl, x) == tbl
commit(tbl, x) == apply(tbl, x)

\* leaving "with self._lock", normally or by an exception
exit_lock_mut(t) == t
exit_lock(t) == 0

\* job_id = _new_id(), the first line of create_job
NewId(t) ==
    /\ tpc[t] = "newid"
    /\ tres' = [tres EXCEPT ![t].id = _new_id(used)]
    /\ used' = used \cup {_new_id(used)}
    /\ tpc' = [tpc EXCEPT ![t] = "wait"]
    /\ UNCHANGED <<rows, txn, lock, top, wvars, svars>>

\* "with self._lock": blocks until the lock is free
Acquire(t) ==
    /\ tpc[t] = "wait" /\ lock = 0
    /\ lock' = t
    /\ tpc' = [tpc EXCEPT ![t] = "locked"]
    /\ UNCHANGED <<rows, txn, top, tres, used, wvars, svars>>

\* get_job_by_url under _read, then JobService.submit's choice
ExecGet(t) ==
    /\ tpc[t] = "locked" /\ top[t].call = "get_job_by_url"
    /\ LET found == get_job_by_url(apply(rows, txn), top[t].url)
           id == IF found = {} THEN 0 ELSE (CHOOSE r \in found : TRUE).id
       IN /\ lock' = exit_lock(t)
          /\ IF id = 0
             THEN /\ tres' = [tres EXCEPT ![t].seen = 0]
                  /\ top' = [top EXCEPT ![t].call = "create_job"]
                  /\ tpc' = [tpc EXCEPT ![t] = "newid"]
             ELSE /\ tres' = [tres EXCEPT ![t] =
                                [seen |-> id, outcome |-> "existing", id |-> id]]
                  /\ tpc' = [tpc EXCEPT ![t] = "done"]
                  /\ UNCHANGED top
    /\ UNCHANGED <<rows, txn, used, wvars, svars>>

\* list_jobs under _read
ExecList(t) ==
    /\ tpc[t] = "locked" /\ top[t].call = "list_jobs"
    /\ lock' = exit_lock(t)
    /\ tres' = [tres EXCEPT ![t] = [seen |-> Cardinality(apply(rows, txn)),
                                    outcome |-> "ok", id |-> 0]]
    /\ tpc' = [tpc EXCEPT ![t] = "done"]
    /\ UNCHANGED <<rows, txn, top, used, wvars, svars>>

\* the INSERT of create_job; a constraint violation raises out of _write
\* before commit
ExecCreate(t) ==
    /\ tpc[t] = "locked" /\ top[t].call = "create_job"
    /\ IF insert_conflict(apply(rows, txn), tres[t].id, top[t].url)
       THEN /\ tres' = [tres EXCEPT ![t].outcome = "IntegrityError"]
            /\ lock' = exit_lock(t)
            /\ tpc' = [tpc EXCEPT ![t] = "done"]
            /\ UNCHANGED txn
       ELSE /\ txn' = [kind |-> "insert", id |-> tres[t].id,
                       url |-> top[t].url, status |-> "pending"]
            /\ tpc' = [tpc EXCEPT ![t] = "executed"]
            /\ UNCHANGED <<tres, lock>>
    /\ UNCHANGED <<rows, top, used, wvars, svars>>

\* the UPDATE of update_job_status
ExecUpdate(t) ==
    /\ tpc[t] = "locked" /\ top[t].call = "update_job_status"
    /\ txn' = [kind |-> "status", id |-> FirstJob.id, url |-> NULL,
               status |-> top[t].status]
    /\ tpc' = [tpc EXCEPT ![t] = "executed"]
    /\ UNCHANGED <<rows, lock, top, tres, used, wvars, svars>>

\* the UPDATE of increment_retry
ExecRetry(t) ==
    /\ tpc[t] = "locked" /\ top[t].call = "increment_retry"
    /\ txn' = [kind |-> "retry", id |-> FirstJob.id, url |-> NULL,
               status |-> NULL]
    /\ tpc' = [tpc EXCEPT ![t] = "executed"]
    /\ UNCHANGED <<rows, lock, top, tres, used, wvars, svars>>

\* the end of _write: conn.commit(), then the lock is released
Commit(t) ==
    /\ tpc[t] = "executed"
    /\ rows' = commit(rows, txn)
    /\ txn' = NoTxn
    /\ lock' = exit_lock(t)
    /\ tres' = [tres EXCEPT ![t].outcome = "ok"]
    /\ tpc' = [tpc EXCEPT ![t] = "done"]
    /\ UNCHANGED <<top, used, wvars, svars>>

DbNewId == \E t \in Threads : NewId(t)
DbAcquire == \E t \in Threads : Acquire(t)
DbExecGet == \E t \in Threads : ExecGet(t)
DbExecList == \E t \in Threads : ExecList(t)
DbExecCreate == \E t \in Threads : ExecCreate(t)
DbExecUpdate == \E t \in Threads : ExecUpdate(t)
DbExecRetry == \E t \in Threads : ExecRetry(t)
DbCommit == \E t \in Threads : Commit(t)

NextDb ==
    \/ DbNewId \/ DbAcquire \/ DbExecGet \/ DbExecList \/ DbExecCreate
    \/ DbExecUpdate \/ DbExecRetry \/ DbCommit

SpecDb == InitDb /\ [][NextDb]_vars

AllDone == \A t \in Threads : tpc[t] = "done"
Creators(u) == {t \in Threads : top[t].call = "create_job" /\ top[t].url = u}
Succeeded(u) == {t \in Creators(u) : tpc[t] = "done" /\ tres[t].outcome = "ok"}
Refused(u) ==
    {t \in Creators(u) : tpc[t] = "done" /\ tres[t].outcome = "IntegrityError"}

\* C9: when several callers create a job for the same new reference after
\* each found no existing job, exactly one create succeeds and every other
\* one fails with the uniqueness error of the store; the failing create
\* changes no row and leaves the store lock free, so the remaining callers
\* can go on.
C9_SameReference ==
    /\ [](\A u \in DbUrls :
            /\ Cardinality(get_job_by_url(rows, u)) <= 1
            /\ Cardinality(Succeeded(u)) <= 1
            /\ (Creators(u) # {} /\ \A t \in Creators(u) : tpc[t] = "done")
                 => /\ Cardinality(Succeeded(u)) = 1
                    /\ Refused(u) = Creators(u) \ Succeeded(u)
                    /\ \E r \in rows :
                         /\ r.url = u
                         /\ \A t \in Succeeded(u) : r.id = tres[t].id)
    /\ [](\A t \in Threads : tpc[t] = "done" => lock # t)
    /\ []((~AllDone) => ENABLED NextDb)
    /\ [][\A t \in Threads :
            (tres'[t].outcome = "IntegrityError" /\ tres[t].outcome = NULL)
               => rows' = rows /\ txn' = txn /\ txn = NoTxn /\ lock' = 0]_vars

C9_Witness ==
    \E t1, t2 \in Threads :
       /\ t1 # t2 /\ top[t1].url = top[t2].url
       /\ top[t1].call = "create_job" /\ top[t2].call = "create_job"
       /\ tres[t1].outcome = "ok" /\ tres[t2].outcome = "IntegrityError"
       /\ AllDone /\ lock = 0

Submitted == {top[t].url : t \in {x \in Threads : top[x].url \in DbUrls}}
Increments == {t \in Threads : top[t].call = "increment_retry"}
Updates == {t \in Threads : top[t].call = "update_job_status"}

\* C10: callers that create jobs for distinct references, concurrently with
\* reads and updates of another job, all succeed: once every caller has
\* returned there is exactly one row per reference, all ids differ, and
\* every committed update is in the table.
C10_DistinctReferences ==
    /\ \A t \in Threads :
          (top[t].call = "create_job" /\ Creators(top[t].url) = {t}
             /\ tpc[t] = "done")
            => /\ tres[t].outcome = "ok"
               /\ \E r \in rows : r.id = tres[t].id /\ r.url = top[t].url
    /\ \A r1, r2 \in rows : r1.id = r2.id => r1 = r2
    /\ \A t \in Threads :
          (tpc[t] = "done" /\ top[t].call = "list_jobs")
             => tres[t].seen \in 1 .. (1 + Cardinality(DbUrls))
    /\ AllDone =>
         /\ Cardinality(rows) = 1 + Cardinality(Submitted)
         /\ \E r \in rows :
               /\ r.id = FirstJob.id
               /\ r.retry_count = Cardinality(Increments)
               /\ IF Updates = {} THEN r.status = FirstJob.status
                  ELSE r.status \in {top[t].status : t \in Updates}

C10_Witness ==
    /\ AllDone
    /\ \E t1, t2, t3 \in Threads :
          /\ top[t1].call = "create_job" /\ top[t2].call = "create_job"
          /\ top[t1].url # top[t2].url
          /\ tres[t1].outcome = "ok" /\ tres[t2].outcome = "ok"
          /\ top[t3].call \in {"update_job_status", "increment_retry"}
    /\ Cardinality(rows) = 3

\* =========================================================================
\* SpecFront: the front-ends (web, bot, CLI, batch) on one shared Job Store
\* =========================================================================

MaxFrontSubmits == 2      \* submissions, over all front-ends, in one behaviour
Fronts == {"web", "bot", "cli", "batch"}
Queued == {"web", "bot"}  \* front-ends that run pipelines on a ThreadPoolExecutor
FUrls == {"u1", "u2"}

\* statuses handle_message, cmd_process_link and _process_entry answer with
\* "already processing"
FrontInProgress == {"downloading", "transcribing", "exporting", "collecting",
                    "analyzing", "saving"}

IdleRun == [job |-> 0, url |-> NULL, from_start |-> FALSE, pc |-> "idle",
            client |-> "none"]
NoExit == [path |-> NULL, client |-> "none", job |-> 0]

frame_f == <<wvars, dvars, s0vars, bvars, xvars>>

InitFront ==
    /\ fjobs = {} /\ fnext = 0
    /\ fq = [fe \in Queued |-> <<>>]
    /\ frun = [fe \in Fronts |-> IdleRun]
    /\ flast = [fe \in Fronts |-> NoExit]
    /\ InitOther_w /\ InitOther_d /\ InitOther_b /\ InitOther_x
    /\ sjobs = {} /\ sresult = NULL /\ squeue = <<>> /\ snext = 0

frow(u) == CHOOSE r \in fjobs : r.url = u
fstatus(id) == (CHOOSE r \in fjobs : r.id = id).status

\* UPDATE jobs SET status = ? WHERE id = ?
fset(tbl, id, st) ==
    {IF r.id = id THEN [r EXCEPT !.status = st] ELSE r : r \in tbl}

\* Database.log_error for the job, then update_job_status(error)
faudit_error(tbl, id) ==
    {IF r.id = id THEN [r EXCEPT !.status = "error", !.audits = @ + 1] ELSE r
       : r \in tbl}

\* Database.create_job: INSERT with status pending
fcreate(tbl, u) ==
    tbl \cup {[id |-> Cardinality(tbl) + 1, url |-> u, status |-> "pending",
               audits |-> 0]}

\* loop.run_in_executor(self._executor, self._run_pipeline, job_id, ...)
Enqueue(fe, id, u, f) ==
    fq' = [fq EXCEPT ![fe] = Append(@, [job |-> id, url |-> u, from_start |-> f])]

\* JobService.submit(url, from_start)
WebSubmit(u, f) ==
    /\ fnext < MaxFrontSubmits /\ fnext' = fnext + 1
    /\ LET existing == url_taken(fjobs, u)
           st == IF existing THEN frow(u).status ELSE NULL
       IN IF existing /\ ~f /\ (st = "done" \/ st \in WebInProgress)
          THEN UNCHANGED <<fjobs, fq>>
          ELSE IF existing /\ ~f /\ st = "error"
          THEN /\ fjobs' = fset(fjobs, frow(u).id, "pending")
               /\ Enqueue("web", frow(u).id, u, FALSE)
          ELSE IF existing /\ f
          THEN /\ fjobs' = fset(fjobs, frow(u).id, "pending")
               /\ Enqueue("web", frow(u).id, u, f)
          ELSE IF existing
          THEN UNCHANGED <<fjobs, fq>>     \* create_job raises IntegrityError
          ELSE /\ fjobs' = fcreate(fjobs, u)
               /\ Enqueue("web", Cardinality(fjobs) + 1, u, f)
    /\ UNCHANGED <<frun, flast, frame_f>>

\* bot handle_message on a message that holds the link
BotMessage(u) ==
    /\ fnext < MaxFrontSubmits /\ fnext' = fnext + 1
    /\ LET existing == url_taken(fjobs, u)
           st == IF existing THEN frow(u).status ELSE NULL
       IN IF existing /\ (st = "done" \/ st \in FrontInProgress)
          THEN UNCHANGED <<fjobs, fq>>
          ELSE IF existing /\ st = "error"
          THEN /\ fjobs' = fset(fjobs, frow(u).id, "pending")
               /\ Enqueue("bot", frow(u).id, u, FALSE)
          ELSE IF existing
          THEN /\ Enqueue("bot", frow(u).id, u, FALSE)
               /\ UNCHANGED fjobs
          ELSE /\ fjobs' = fcreate(fjobs, u)
               /\ Enqueue("bot", Cardinality(fjobs) + 1, u, FALSE)
    /\ UNCHANGED <<frun, flast, frame_f>>

\* the executor thread of a front-end takes the next queued _run_pipeline
ExecStart(fe) ==
    /\ fe \in Queued /\ frun[fe].pc = "idle" /\ fq[fe] # <<>>
    /\ fq' = [fq EXCEPT ![fe] = Tail(@)]
    /\ frun' = [frun EXCEPT ![fe] =
                  [job |-> Head(fq[fe]).job, url |-> Head(fq[fe]).url,
                   from_start |-> Head(fq[fe]).from_start,
                   pc |-> "connect", client |-> "created"]]
    /\ UNCHANGED <<fjobs, flast, fnext, frame_f>>

\* cmd_process_link(url, from_start) up to the Worker being built
CliProcessLink(u, f) ==
    /\ fnext < MaxFrontSubmits /\ fnext' = fnext + 1
    /\ frun["cli"].pc = "idle"
    /\ LET existing == url_taken(fjobs, u)
           st == IF existing THEN frow(u).status ELSE NULL
           go(id) == frun' = [frun EXCEPT !["cli"] =
                        [job |-> id, url |-> u, from_start |-> f,
                         pc |-> "get_client", client |-> "none"]]
       IN IF existing /\ ~f /\ (st = "done" \/ st \in FrontInProgress \/ st = "error")
          THEN UNCHANGED <<fjobs, frun>>
          ELSE IF existing /\ f
          THEN fjobs' = fset(fjobs, frow(u).id, "pending") /\ go(frow(u).id)
          ELSE IF existing /\ st = "pending"
          THEN UNCHANGED fjobs /\ go(frow(u).id)
          ELSE IF existing
          THEN UNCHANGED <<fjobs, frun>>   \* create_job raises IntegrityError
          ELSE fjobs' = fcreate(fjobs, u) /\ go(Cardinality(fjobs) + 1)
    /\ UNCHANGED <<fq, flast, frame_f>>

\* cmd_retry(job_id, from_start) up to the Worker being built
CliRetry(id, f) ==
    /\ fnext < MaxFrontSubmits /\ fnext' = fnext + 1
    /\ frun["cli"].pc = "idle"
    /\ \E r \in fjobs : r.id = id
    /\ fjobs' = fset(fjobs, id, "pending")
    /\ frun' = [frun EXCEPT !["cli"] =
                  [job |-> id, url |-> (CHOOSE r \in fjobs : r.id = id).url,
                   from_start |-> f, pc |-> "get_client", client |-> "none"]]
    /\ UNCHANGED <<fq, flast, frame_f>>

\* BatchRunner.run on a note with one Telegram reference: the client is
\* made before the entry is looked at
BatchRun(u, f) ==
    /\ fnext < MaxFrontSubmits /\ fnext' = fnext + 1
    /\ frun["batch"].pc = "idle"
    /\ frun' = [frun EXCEPT !["batch"] =
                  [job |-> 0, url |-> u, from_start |-> f,
                   pc |-> "get_client", client |-> "none"]]
    /\ UNCHANGED <<fjobs, fq, flast, frame_f>>

\* the execution of front-end fe ends on the given path
Exit(fe, path, cl) ==
    /\ flast' = [flast EXCEPT ![fe] =
                   [path |-> path, client |-> cl, job |-> frun[fe].job]]
    /\ frun' = [frun EXCEPT ![fe] = IdleRun]

\* get_authorized_client (CLI, batch): is_authorized connects, asks and always
\* disconnects; RuntimeError when there is no valid session
GetClient(fe) ==
    /\ frun[fe].pc = "get_client"
    /\ \/ frun' = [frun EXCEPT ![fe].pc = "connect", ![fe].client = "created"]
          /\ UNCHANGED flast
       \/ Exit(fe, "unauthorized", "closed")
    /\ UNCHANGED <<fjobs, fq, fnext, frame_f>>

\* run_sync(client.connect())
Connect(fe) ==
    /\ frun[fe].pc = "connect"
    /\ \/ /\ frun' = [frun EXCEPT ![fe].client = "connected",
                        ![fe].pc = IF fe \in Queued THEN "auth"
                                   ELSE IF fe = "batch" THEN "entry"
                                   ELSE "process"]
          /\ UNCHANGED <<flast, fjobs>>
       \/ \* connect raises
          IF fe \in Queued
          THEN \* except Exception: update_job_status(error); no disconnect
               /\ fjobs' = fset(fjobs, frun[fe].job, "error")
               /\ Exit(fe, "exception", "created")
          ELSE IF fe = "cli"
          THEN \* finally: safe_disconnect(client)
               /\ Exit(fe, "exception", "closed")
               /\ UNCHANGED fjobs
          ELSE \* raised inside _get_telegram_client: run()'s client is None
               /\ Exit(fe, "exception", "created")
               /\ UNCHANGED fjobs
    /\ UNCHANGED <<fq, fnext, frame_f>>

\* run_sync(client.is_user_authorized()) in _run_pipeline (web, bot)
Auth(fe) ==
    /\ frun[fe].pc = "auth"
    /\ \/ /\ frun' = [frun EXCEPT ![fe].pc = "process"]
          /\ UNCHANGED <<flast, fjobs>>
       \/ \* not authorized: status error, safe_disconnect, return
          /\ fjobs' = fset(fjobs, frun[fe].job, "error")
          /\ Exit(fe, "unauthorized", "closed")
       \/ \* the call raises: except Exception sets status error
          /\ fjobs' = fset(fjobs, frun[fe].job, "error")
          /\ Exit(fe, "exception", "connected")
    /\ UNCHANGED <<fq, fnext, frame_f>>

\* BatchRunner._process_entry up to the call of Worker.process
BatchEntry ==
    /\ frun["batch"].pc = "entry"
    /\ LET u == frun["batch"].url
           f == frun["batch"].from_start
           existing == url_taken(fjobs, u)
           st == IF existing THEN frow(u).status ELSE NULL
           go(id) == /\ frun' = [frun EXCEPT !["batch"].job = id,
                                             !["batch"].pc = "process"]
                     /\ UNCHANGED flast
       IN IF existing /\ ~f /\ st = "done"
          THEN Exit("batch", "success", "closed") /\ UNCHANGED fjobs
          ELSE IF existing /\ ~f /\ st \in FrontInProgress
          THEN Exit("batch", "conflict", "closed") /\ UNCHANGED fjobs
          ELSE IF existing /\ (f \/ st = "error")
          THEN fjobs' = fset(fjobs, frow(u).id, "pending") /\ go(frow(u).id)
          ELSE IF existing
          THEN UNCHANGED fjobs /\ go(frow(u).id)
          ELSE fjobs' = fcreate(fjobs, u) /\ go(Cardinality(fjobs) + 1)
    /\ UNCHANGED <<fq, fnext, frame_f>>

\* Worker.process is running: an orchestrator writes a stage status
ProcessStatus(fe) ==
    /\ frun[fe].pc = "process"
    /\ \E st \in StageStatuses :
          /\ fstatus(frun[fe].job) # st
          /\ fjobs' = fset(fjobs, frun[fe].job, st)
    /\ UNCHANGED <<fq, frun, flast, fnext, frame_f>>

\* Worker.process returns an artifact (status done) or None (audit record,
\* status error); the caller disconnects the client
ProcessReturn(fe) ==
    /\ frun[fe].pc = "process"
    /\ \/ /\ fjobs' = fset(fjobs, frun[fe].job, "done")
          /\ Exit(fe, "success", "closed")
       \/ /\ fjobs' = faudit_error(fjobs, frun[fe].job)
          /\ Exit(fe, "failure", "closed")
    /\ UNCHANGED <<fq, fnext, frame_f>>

FWebSubmit == \E u \in FUrls, f \in BOOLEAN : WebSubmit(u, f)
FBotMessage == \E u \in FUrls : BotMessage(u)
FCliProcessLink == \E u \in FUrls, f \in BOOLEAN : CliProcessLink(u, f)
FCliRetry == \E id \in 1 .. Cardinality(FUrls), f \in BOOLEAN : CliRetry(id, f)
FBatchRun == \E u \in FUrls, f \in BOOLEAN : BatchRun(u, f)
FExecStart == \E fe \in Queued : ExecStart(fe)
FGetClient == \E fe \in Fronts : GetClient(fe)
FConnect == \E fe \in Fronts : Connect(fe)
FAuth == \E fe \in Fronts : Auth(fe)
FProcessStatus == \E fe \in Fronts : ProcessStatus(fe)
FProcessReturn == \E fe \in Fronts : ProcessReturn(fe)

NextFront ==
    \/ FWebSubmit \/ FBotMessage \/ FCliProcessLink \/ FCliRetry \/ FBatchRun
    \/ FExecStart \/ FGetClient \/ FConnect \/ FAuth \/ BatchEntry
    \/ FProcessStatus \/ FProcessReturn

SpecFront == InitFront /\ [][NextFront]_vars

\* C11 (as stated): at any time at most one pipeline execution is active
\* for a given job, within a front-end and across the front-ends that share
\* the Job Store.
C11_Original ==
    \A fe1, fe2 \in Fronts :
       (fe1 # fe2 /\ frun[fe1].pc = "process" /\ frun[fe2].pc = "process")
          => frun[fe1].job # frun[fe2].job

\* C18 (as stated): every failure produces an error-audit record before the
\* retry decision is acted on; in particular no job is set to status error
\* without an audit record for the failure.
C18_Original ==
    \A r \in fjobs : r.status = "error" => r.audits > 0

\* C20 (as stated): every caller that creates an acquisition-client session
\* disconnects it on every exit path: success, Worker failure, authorization
\* failure and any exception raised after the client was created.
C20_Original ==
    \A fe \in Fronts : flast[fe].path # NULL => flast[fe].client # "connected"

\* the step hands job id to a pipeline execution with from_start set
FromStartRequested(id) ==
    \/ \E fe \in Fronts : frun'[fe].job = id /\ frun'[fe].from_start
    \/ \E fe \in Queued :
          /\ fq'[fe] # fq[fe] /\ fq'[fe] # <<>>
          /\ fq'[fe][Len(fq'[fe])].job = id
          /\ fq'[fe][Len(fq'[fe])].from_start

\* C36 (as stated): no entry point moves a job that is done or in an
\* in-progress stage status back to pending without from_start.
C36_Original ==
    [][\A r \in fjobs, r2 \in fjobs' :
          (/\ r.id = r2.id /\ r2.status = "pending"
           /\ r.status \in {"done"} \cup StageStatuses)
             => FromStartRequested(r.id)]_vars

\* ---- SpecRestart: the front-ends with a kill and restart of the process ---

\* The process is killed while executions are running or queued: threads,
\* queues and clients are gone, the Job Store keeps every row as it is.
FrontKill ==
    /\ \E fe \in Fronts : frun[fe].pc # "idle"
    /\ frun' = [fe \in Fronts |-> IdleRun]
    /\ fq' = [fe \in Queued |-> <<>>]
    /\ UNCHANGED <<fjobs, flast, fnext, frame_f>>

NextRestart == NextFront \/ FrontKill

SpecRestart == InitFront /\ [][NextRestart]_vars

\* nothing is running or queued
Restarted ==
    /\ \A fe \in Fronts : frun[fe].pc = "idle"
    /\ \A fe \in Queued : fq[fe] = <<>>

\* the step hands job id to an execution that goes on to Worker.process
StartsProcessing(id) ==
    \/ \E fe \in Fronts : frun'[fe].job = id /\ frun'[fe].pc \notin {"idle", "entry"}
    \/ \E fe \in Queued : \E i \in DOMAIN fq'[fe] : fq'[fe][i].job = id

\* C33 (as stated): after a kill that left a job in an in-progress stage
\* status, resubmitting its reference without from_start through the web
\* service, the bot or the CLI starts processing of that job, and so does
\* the batch runner when it reaches the entry.
C33_Original ==
    \A r \in fjobs :
       /\ (Restarted /\ r.status \in StageStatuses /\ fnext < MaxFrontSubmits)
            => /\ ENABLED (WebSubmit(r.url, FALSE) /\ StartsProcessing(r.id))
               /\ ENABLED (BotMessage(r.url) /\ StartsProcessing(r.id))
               /\ ENABLED (CliProcessLink(r.url, FALSE) /\ StartsProcessing(r.id))
       /\ (/\ r.status \in StageStatuses
           /\ frun["batch"].pc = "entry" /\ frun["batch"].url = r.url
           /\ ~frun["batch"].from_start
           /\ \A fe \in Fronts \ {"batch"} : frun[fe].job # r.id)
            => ENABLED (BatchEntry /\ StartsProcessing(r.id))

\* =========================================================================
\* SpecBatch: BatchRunner.run on a parsed note, and index_builder.build
\* =========================================================================

MaxEntries == 2           \* lines with a URL in the note
BUrls == {"tg1", "ext1"}  \* a Telegram link and an external link
BadUrl == "bad"           \* a URL parse_url rejects: NoteEntry.link is None
BGroups == {"", "g"}      \* NoteEntry.group: none, or a group prefix
AllStatuses == {"pending", "done", "error"} \cup StageStatuses

\* statuses _process_entry answers with "Already processing"
BatchInProgress == {"downloading", "transcribing", "exporting",
                    "collecting", "analyzing", "saving"}

frame_b == <<wvars, dvars, s0vars, fvars, xvars>>

\* last_error Worker.process writes when item i ends in error (0: a run
\* before this batch); str(e) of an exception raised while item i is handled
BMsg(i) == 100 + i
BExc(i) == 200 + i
\* f"Already processing (status: ...)"
AlreadyProcessing == 300

NoRow == [id |-> 0, status |-> NULL, last_error |-> NoMsg, retry_count |-> 0]
\* a row some earlier run left in the given status
OldRow(u, st) ==
    [id |-> IF u = "tg1" THEN 1 ELSE 2, status |-> st,
     last_error |-> IF st = "error" THEN BMsg(0) ELSE NoMsg,
     retry_count |-> IF st = "error" THEN 1 ELSE 0]

Notes == UNION {[1 .. n -> [url : BUrls \cup {BadUrl}, group : BGroups]]
                  : n \in 1 .. MaxEntries}

InitBatch ==
    /\ bnote \in Notes
    /\ bfrom \in BOOLEAN
    /\ btab \in [BUrls -> {NoRow}]
          \cup {[u \in BUrls |-> IF u = v THEN OldRow(v, st) ELSE NoRow]
                  : v \in BUrls, st \in AllStatuses}
          \cup {[u \in BUrls |-> OldRow(u, IF u = "tg1" THEN st ELSE "done")]
                  : st \in AllStatuses}
    /\ bpc = "idle" /\ bi = 0 /\ bitems = <<>> /\ bproc = <<>> /\ bindex = <<>>
    /\ InitOther_w /\ InitOther_d /\ InitOther_f /\ InitOther_x
    /\ sjobs = {} /\ sresult = NULL /\ squeue = <<>> /\ snext = 0

\* valid_entries = [e for e in note.entries if e.link is not None]
HasLink(e) == e.url # BadUrl
valid_entries == SelectSeq(bnote, HasLink)

\* BatchItemResult(entry, index): success False, the rest None
NewItem(i) ==
    [index |-> i, url |-> valid_entries[i].url, group |-> valid_entries[i].group,
     success |-> FALSE, job_id |-> 0, error |-> NoMsg]

\* result.items.append(item_result); the for loop takes the next entry
AppendItem(it) ==
    /\ bitems' = Append(bitems, it)
    /\ IF bi < Len(valid_entries)
       THEN bi' = bi + 1 /\ bpc' = "entry"
       ELSE bi' = bi /\ bpc' = "finally"

\* BatchRunner.run up to the for loop: an empty batch returns at once;
\* _get_telegram_client and Worker(...) run inside the try
BatchStart ==
    /\ bpc = "idle"
    /\ IF valid_entries = <<>>
       THEN bpc' = "done" /\ bi' = bi
       ELSE \/ bpc' = "entry" /\ bi' = 1
            \/ \* the client cannot be made or connected: the exception
               \* leaves run()
               /\ \E k \in DOMAIN valid_entries : valid_entries[k].url = "tg1"
               /\ bpc' = "raised" /\ bi' = bi
    /\ UNCHANGED <<bnote, bfrom, btab, bitems, bproc, bindex, frame_b>>

\* the idempotency check of _process_entry: done / in progress / error /
\* pending or anything else / from_start / new job
InListDone_mut(st) == st = "pending"
InListDone(st) == st = "done"

\* except Exception as e: item.error = str(e); return item
CatchAll_mut(item, i) == bpc' = "raised" /\ UNCHANGED <<bi, bitems>>
CatchAll(item, i) == AppendItem([item EXCEPT !.error = BExc(i)])

ProcessEntry ==
    /\ bpc = "entry"
    /\ LET u == valid_entries[bi].url
           row == btab[u]
           existing == row.id # 0
           item == NewItem(bi)
       IN \/ IF existing /\ ~bfrom /\ InListDone(row.status)
             THEN /\ AppendItem([item EXCEPT !.success = TRUE, !.job_id = row.id])
                  /\ UNCHANGED btab
             ELSE IF existing /\ ~bfrom /\ row.status \in BatchInProgress
             THEN /\ AppendItem([item EXCEPT !.error = AlreadyProcessing,
                                             !.job_id = row.id])
                  /\ UNCHANGED btab
             ELSE IF existing /\ ~bfrom /\ row.status = "error"
             THEN /\ btab' = [btab EXCEPT ![u].status = "pending",
                                          ![u].retry_count = 0]
                  /\ bpc' = "process" /\ UNCHANGED <<bi, bitems>>
             ELSE IF existing /\ ~bfrom
             THEN /\ bpc' = "process" /\ UNCHANGED <<btab, bi, bitems>>
             ELSE IF existing
             THEN /\ btab' = [btab EXCEPT ![u].status = "pending"]
                  /\ bpc' = "process" /\ UNCHANGED <<bi, bitems>>
             ELSE /\ btab' = [btab EXCEPT ![u] = OldRow(u, "pending")]
                  /\ bpc' = "process" /\ UNCHANGED <<bi, bitems>>
          \/ \* update_job_status / create_job / create_external_job raises
             /\ ~(existing /\ ~bfrom /\ row.status \notin {"error"})
             /\ CatchAll(item, bi)
             /\ UNCHANGED btab
    /\ UNCHANGED <<bnote, bfrom, bproc, bindex, frame_b>>

\* worker.process(job_id, link, client, from_start) and what _process_entry
\* makes of its result
WorkerProcess ==
    /\ bpc = "process"
    /\ LET u == valid_entries[bi].url
           row == btab[u]
           item == [NewItem(bi) EXCEPT !.job_id = row.id]
           called(o) == bproc' = Append(bproc, [index |-> bi, job |-> row.id,
                                                outcome |-> o])
       IN \/ \* a result: the orchestrator has set status done
             /\ called("result")
             /\ btab' = [btab EXCEPT ![u].status = "done"]
             /\ AppendItem([item EXCEPT !.success = TRUE])
          \/ \* None after a failure: status error and last_error are set
             /\ called("error")
             /\ btab' = [btab EXCEPT ![u].status = "error",
                                     ![u].last_error = BMsg(bi)]
             /\ AppendItem([item EXCEPT !.error = BMsg(bi)])
          \/ \* None with no attempt made (max_retries = 0): row as it was
             /\ called("none")
             /\ UNCHANGED btab
             /\ AppendItem([item EXCEPT !.error = row.last_error])
          \/ \* the call raises
             /\ called("raise")
             /\ UNCHANGED btab
             /\ CatchAll(item, bi)
    /\ UNCHANGED <<bnote, bfrom, bindex, frame_b>>

\* IndexEntry.status
EntryStatus(it) ==
    IF it.success THEN "done" ELSE IF it.error # NoMsg THEN "error" ELSE "skipped"

IndexEntry_mut(it) ==
    [index |-> 1, url |-> it.url, group |-> it.group, status |-> EntryStatus(it)]
IndexEntry(it) ==
    [index |-> it.index, url |-> it.url, group |-> it.group,
     status |-> EntryStatus(it)]

\* groups[key].append(e)
GroupAppend_mut(es, e) == <<e>> \o es
GroupAppend(es, e) == Append(es, e)

\* index_builder._group_entries: by group, in order of first appearance
RECURSIVE _group_entries(_, _)
_group_entries(entries, groups) ==
    IF entries = <<>> THEN groups
    ELSE LET e == Head(entries)
             key == IF e.group = "" THEN "BASE" ELSE e.group
         IN IF \E k \in DOMAIN groups : groups[k].prefix = key
            THEN _group_entries(Tail(entries),
                    [k \in DOMAIN groups |->
                       IF groups[k].prefix = key
                       THEN [groups[k] EXCEPT !.entries = GroupAppend(@, e)]
                       ELSE groups[k]])
            ELSE _group_entries(Tail(entries),
                    Append(groups, [prefix |-> key, entries |-> <<e>>]))

\* index_builder.build: one IndexEntry per item, grouped
build(items) ==
    _group_entries([k \in DOMAIN items |-> IndexEntry(items[k])], <<>>)

\* finally: disconnect; then the index is built when there are items; an
\* exception of build is logged and swallowed
FinallyAndIndex ==
    /\ bpc = "finally"
    /\ bpc' = "done"
    /\ \/ bitems # <<>> /\ bindex' = build(bitems)
       \/ UNCHANGED bindex
    /\ UNCHANGED <<bnote, bfrom, btab, bi, bitems, bproc, frame_b>>

NextBatch == BatchStart \/ ProcessEntry \/ WorkerProcess \/ FinallyAndIndex

SpecBatch == InitBatch /\ [][NextBatch]_vars

\* BatchResult.total / succeeded / failed
total == Len(bitems)
succeeded == Cardinality({k \in DOMAIN bitems : bitems[k].success})
failed == Cardinality({k \in DOMAIN bitems : ~bitems[k].success})

\* the places <<group, position>> of the index that hold the entry numbered i
IndexPlaces(i) ==
    UNION {{<<g, q>> : q \in {r \in DOMAIN bindex[g].entries :
                                bindex[g].entries[r].index = i}}
             : g \in DOMAIN bindex}

\* number of entries in the index
IndexSize ==
    Cardinality(UNION {{<<g, q>> : q \in DOMAIN bindex[g].entries}
                         : g \in DOMAIN bindex})

\* C12: in a batch of N references, a reference whose processing raises or
\* fails is recorded as a failed item with its error, every other reference
\* is still processed (no exception leaves run() once the loop has started),
\* and the result has total = N and succeeded + failed = N; with exactly one
\* failure succeeded = N - 1, wherever the failing item stands.
C12_FailureIsolation ==
    /\ bpc = "raised" => (bitems = <<>> /\ bproc = <<>>)
    /\ \A k \in DOMAIN bitems :
          /\ bitems[k].index = k
          /\ bitems[k].url = valid_entries[k].url
    /\ \A j \in DOMAIN bproc :
          LET k == bproc[j].index
          IN /\ k \in DOMAIN bitems
             /\ bproc[j].outcome = "result" => bitems[k].success
             /\ bproc[j].outcome = "error" =>
                   (~bitems[k].success /\ bitems[k].error = BMsg(k))
             /\ bproc[j].outcome = "raise" =>
                   (~bitems[k].success /\ bitems[k].error = BExc(k))
             /\ bproc[j].outcome = "none" => ~bitems[k].success
    /\ bpc \in {"finally", "done"} =>
          /\ total = Len(valid_entries)
          /\ succeeded + failed = total
          /\ failed = 1 => succeeded = Len(valid_entries) - 1

\* a batch of two references whose first one raised inside Worker.process
\* and whose second one succeeded
C12_Witness ==
    /\ bpc = "done" /\ total = 2 /\ failed = 1 /\ succeeded = 1
    /\ \E j \in DOMAIN bproc : bproc[j].index = 1 /\ bproc[j].outcome = "raise"
    /\ bitems[2].success

C14_Original ==
    [][(bpc = "entry" /\ ~bfrom
          /\ btab[valid_entries[bi].url].status \in StageStatuses)
         => (/\ bpc' # "process"
             /\ bproc' = bproc
             /\ bitems' = Append(bitems,
                   [NewItem(bi) EXCEPT !.error = AlreadyProcessing,
                                       !.job_id = btab[valid_entries[bi].url].id]))]_vars

\* C15: without from_start, a reference whose job has status done is
\* recorded as a success carrying the existing job id, Worker.process is not
\* invoked for it and the job row is left unchanged.
C15_DoneIsSkipped ==
    [][(bpc = "entry" /\ ~bfrom
          /\ btab[valid_entries[bi].url].status = "done")
         => (/\ bitems' = Append(bitems,
                   [NewItem(bi) EXCEPT !.success = TRUE,
                                       !.job_id = btab[valid_entries[bi].url].id])
             /\ bproc' = bproc
             /\ bpc' # "process"
             /\ btab' = btab)]_vars

\* a succeeded item with a job id for which Worker.process was never called,
\* in a batch without from_start
C15_Witness ==
    /\ ~bfrom
    /\ \E k \in DOMAIN bitems :
          /\ bitems[k].success /\ bitems[k].job_id # 0
          /\ btab[bitems[k].url].status = "done"
          /\ \A j \in DOMAIN bproc : bproc[j].index # k


\* =========================================================================
\* SpecClassify: classifier.classify and Worker._determine_job_type over
\* every payload shape
\* =========================================================================

MaxClsRuns == 2           \* Worker.process calls on the job in one behaviour

NoMedia == [cls |-> "none", mime |-> "other", attrs |-> {}]

\* message.media as classify inspects it: its class (MessageMediaPhoto,
\* MessageMediaDocument with or without a document, anything else), the
\* document's MIME prefix and the kinds of its attributes
MediaShapes ==
    {[cls |-> c, mime |-> "other", attrs |-> {}]
        : c \in {"none", "photo", "empty_document", "other"}}
    \cup [cls : {"document"}, mime : {"video", "audio", "image", "other"},
          attrs : SUBSET {"video", "audio", "filename"}]

NoMessage == [exists |-> FALSE, text |-> FALSE, media |-> NoMedia]
Messages == [exists : {TRUE}, text : BOOLEAN, media : MediaShapes] \cup {NoMessage}

\* classifier._is_audio_video_media
_is_audio_video_media_mut(media) ==
    media.cls = "document" /\ media.mime \in {"video", "audio"}
_is_audio_video_media(media) ==
    IF media.cls # "document" THEN FALSE
    ELSE IF media.attrs \cap {"video", "audio"} # {} THEN TRUE
    ELSE media.mime \in {"video", "audio"}

\* classifier._is_image
_is_image(media) ==
    IF media.cls = "photo" THEN TRUE
    ELSE media.cls = "document" /\ media.mime = "image"

\* classifier._is_document
_is_document(media) ==
    IF media.cls # "document" THEN FALSE
    ELSE IF _is_audio_video_media(media) THEN FALSE
    ELSE media.mime # "image"

\* classifier.classify on the message _get_message returned
classify_message(m) ==
    IF ~m.exists THEN "ValueError"
    ELSE IF ~m.text /\ m.media.cls = "none" THEN "ValueError"
    ELSE IF m.media.cls # "none" /\ _is_audio_video_media(m.media) THEN "AUDIO_VIDEO"
    ELSE IF m.media.cls # "none" /\ _is_image(m.media) THEN "TEXT_WITH_IMAGES"
    ELSE IF m.media.cls # "none" /\ _is_document(m.media) THEN "TEXT_WITH_DOCS"
    ELSE IF m.text THEN "TEXT_ONLY"
    ELSE "ValueError"

frame_k == <<wvars, dvars, s0vars, fvars, bvars, lvars, qvars, pvars, nvars, gvars>>

\* every front-end creates the job with create_job(link): job_type media
InitClassify ==
    /\ kmsg \in Messages
    /\ kmax \in 0..MaxRetriesBound
    /\ kjob = [status |-> "pending", job_type |-> "media", retry_count |-> 0]
    /\ kpc = "idle" /\ kattempt = 0 /\ kcls = "none" /\ kroute = "none"
    /\ kexc = "none" /\ kruns = 0
    /\ InitOther_w /\ InitOther_d /\ InitOther_f /\ InitOther_b /\ InitOther_l
    /\ InitOther_q /\ InitOther_p
    /\ InitOther_n /\ InitOther_g
    /\ sjobs = {} /\ sresult = NULL /\ squeue = <<>> /\ snext = 0

\* a caller resets a job in status error and calls Worker.process
ClsProcess ==
    /\ kpc \in {"idle", "returned"}
    /\ kruns < MaxClsRuns
    /\ kruns' = kruns + 1
    /\ kjob' = IF kjob.status = "error"
               THEN [kjob EXCEPT !.status = "pending", !.retry_count = 0]
               ELSE kjob
    /\ kattempt' = 1 /\ kcls' = "none" /\ kroute' = "none" /\ kexc' = "none"
    /\ kpc' = IF kmax = 0 THEN "returned" ELSE "determine"
    /\ UNCHANGED <<frame_k, kmsg, kmax>>

\* Worker._determine_job_type
ClsDetermine ==
    /\ kpc = "determine"
    /\ IF existing_type_reused(kjob.job_type)
       THEN /\ kroute' = kjob.job_type /\ kpc' = "orchestrate"
            /\ UNCHANGED <<kjob, kcls, kexc>>
       ELSE \/ \* _get_message raises
               /\ kexc' = "unexpected" /\ kpc' = "h_rt"
               /\ UNCHANGED <<kjob, kcls, kroute>>
            \/ /\ kcls' = classify_message(kmsg)
               /\ IF kcls' = "ValueError"
                  THEN /\ kexc' = "MediaNotFoundError" /\ kpc' = "h_nr"
                       /\ UNCHANGED <<kjob, kroute>>
                  ELSE /\ kroute' = IF kcls' = "AUDIO_VIDEO" THEN "media" ELSE "ingest"
                       /\ kjob' = [kjob EXCEPT !.job_type = kroute']
                       /\ kpc' = "orchestrate"
                       /\ UNCHANGED kexc
    /\ UNCHANGED <<frame_k, kmsg, kmax, kattempt, kruns>>

\* the orchestrator the job was dispatched to returns an artifact or raises
\* a stage error
ClsDispatch ==
    /\ kpc = "orchestrate"
    /\ \/ /\ kjob' = [kjob EXCEPT !.status = "done"] /\ kpc' = "returned"
          /\ UNCHANGED kexc
       \/ /\ kexc' = "PipelineError" /\ kpc' = "h_rt"
          /\ UNCHANGED kjob
    /\ UNCHANGED <<frame_k, kmsg, kmax, kattempt, kcls, kroute, kruns>>

\* except NON_RETRYABLE
ClsNonRetryable ==
    /\ kpc = "h_nr"
    /\ kjob' = [kjob EXCEPT !.status = "error"]
    /\ kpc' = "returned"
    /\ UNCHANGED <<frame_k, kmsg, kmax, kattempt, kcls, kroute, kexc, kruns>>

\* except (PipelineError, ...) / except Exception
ClsRetry ==
    /\ kpc = "h_rt"
    /\ IF kattempt >= kmax
       THEN /\ kjob' = [kjob EXCEPT !.retry_count = @ + 1, !.status = "error"]
            /\ kpc' = "returned"
            /\ UNCHANGED <<kattempt, kcls, kroute, kexc>>
       ELSE /\ kjob' = [kjob EXCEPT !.retry_count = @ + 1]
            /\ kattempt' = kattempt + 1 /\ kpc' = "determine"
            /\ kcls' = "none" /\ kroute' = "none" /\ kexc' = "none"
    /\ UNCHANGED <<frame_k, kmsg, kmax, kruns>>

NextClassify ==
    ClsProcess \/ ClsDetermine \/ ClsDispatch \/ ClsNonRetryable \/ ClsRetry

SpecClassify == InitClassify /\ [][NextClassify]_vars

\* the attachment kind of a payload shape
AttachmentKind(media) ==
    CASE media.cls = "none" -> "none"
      [] media.cls = "photo" -> "image"
      [] media.cls = "document"
           /\ (media.attrs \cap {"video", "audio"} # {}
                 \/ media.mime \in {"video", "audio"}) -> "av"
      [] media.cls = "document" /\ media.mime = "image" -> "image"
      [] media.cls = "document" -> "doc"
      [] OTHER -> "unrecognized"

AVPresent == kmsg.exists /\ AttachmentKind(kmsg.media) = "av"

MaxAlbum == 3             \* messages of an album

\* one attachment: its class, its size against cfg.max_file_mb (unknown =
\* the size field is 0 or missing) and its duration against
\* cfg.max_duration_sec
AlbumShapes ==
    {[media |-> "none", size |-> "unknown", duration_over |-> FALSE],
     [media |-> "photo", size |-> "within", duration_over |-> FALSE]}
    \cup [media : {"document"}, size : {"unknown", "within", "over"},
          duration_over : {FALSE}]
SingleShapes ==
    [media : {"document"}, size : {"unknown", "within", "over"},
     duration_over : BOOLEAN]

Albums == UNION {[1..n -> AlbumShapes] : n \in 1..MaxAlbum}

\* worker.NON_RETRYABLE
NON_RETRYABLE == {"AccessDeniedError", "MediaNotFoundError",
                  "UnsupportedMediaError", "MediaLimitExceededError"}

\* CollectorOrchestrator._download_media: the size test on documents
collector_over_limit_mut(it) == FALSE
collector_over_limit(it) == it.media = "document" /\ it.size = "over"

\* TelegramDownloader.download: the size test on documents, then the duration
downloader_over_limit(it) ==
    (it.media = "document" /\ it.size = "over") \/ it.duration_over

\* ExternalCollectorOrchestrator.run: the duration, then the known file size
external_over_limit(it) == it.duration_over \/ it.size = "over"

frame_l == <<wvars, dvars, s0vars, fvars, bvars, kvars, qvars, pvars, nvars, gvars>>

InitLimits ==
    /\ lkind \in {"media", "collect", "external"}
    /\ litems \in IF lkind = "collect" THEN Albums ELSE [1..1 -> SingleShapes]
    /\ li = 0 /\ ldl = <<>> /\ lpc = "idle" /\ lexc = "none" /\ lres = "none"
    /\ InitOther_w /\ InitOther_d /\ InitOther_f /\ InitOther_b /\ InitOther_k
    /\ InitOther_q /\ InitOther_p
    /\ InitOther_n /\ InitOther_g
    /\ sjobs = {} /\ sresult = NULL /\ squeue = <<>> /\ snext = 0

\* the run reaches its download stage
LimRun ==
    /\ lpc = "idle"
    /\ li' = 1
    /\ lpc' = IF lkind = "collect" THEN "loop" ELSE "check"
    /\ UNCHANGED <<frame_l, lkind, litems, ldl, lexc, lres>>

\* CollectorOrchestrator.run: for m in messages: if m.media:
\* _download_media(client, m, collected_dir)
CollectorDownloadLoop ==
    /\ lpc = "loop"
    /\ IF li > Len(litems)
       THEN lpc' = "done" /\ UNCHANGED <<li, ldl, lexc>>
       ELSE IF litems[li].media = "none"
       THEN li' = li + 1 /\ UNCHANGED <<lpc, ldl, lexc>>
       ELSE IF collector_over_limit(litems[li])
       THEN /\ lexc' = "MediaLimitExceededError" /\ lpc' = "raised"
            /\ UNCHANGED <<li, ldl>>
       ELSE /\ ldl' = Append(ldl, li)
            /\ \/ li' = li + 1 /\ UNCHANGED <<lpc, lexc>>
               \/ lexc' = "CollectorError" /\ lpc' = "raised" /\ UNCHANGED li
    /\ UNCHANGED <<frame_l, lkind, litems, lres>>

\* TelegramDownloader.download called by Orchestrator.run
DownloaderDownload ==
    /\ lpc = "check" /\ lkind = "media"
    /\ IF downloader_over_limit(litems[li])
       THEN /\ lexc' = "MediaLimitExceededError" /\ lpc' = "raised"
            /\ UNCHANGED ldl
       ELSE /\ ldl' = Append(ldl, li)
            /\ \/ lpc' = "done" /\ UNCHANGED lexc
               \/ lexc' = "PipelineError" /\ lpc' = "raised"
    /\ UNCHANGED <<frame_l, lkind, litems, li, lres>>

\* ExternalCollectorOrchestrator.run: the limits on the fetched info, then
\* _download_video
ExternalLimitsDownload ==
    /\ lpc = "check" /\ lkind = "external"
    /\ IF external_over_limit(litems[li])
       THEN /\ lexc' = "MediaLimitExceededError" /\ lpc' = "raised"
            /\ UNCHANGED ldl
       ELSE /\ ldl' = Append(ldl, li)
            /\ \/ lpc' = "done" /\ UNCHANGED lexc
               \/ lexc' = "ExternalCollectorError" /\ lpc' = "raised"
    /\ UNCHANGED <<frame_l, lkind, litems, li, lres>>

\* Worker.process: except NON_RETRYABLE / except (PipelineError, ...)
WorkerExcept ==
    /\ lpc = "raised"
    /\ lres' = IF lexc \in NON_RETRYABLE THEN "terminal" ELSE "retry"
    /\ lpc' = "handled"
    /\ UNCHANGED <<frame_l, lkind, litems, li, ldl, lexc>>

NextLimits ==
    \/ LimRun \/ CollectorDownloadLoop \/ DownloaderDownload
    \/ ExternalLimitsDownload \/ WorkerExcept

SpecLimits == InitLimits /\ [][NextLimits]_vars

\* the attachment is known to exceed a ceiling the orchestrator enforces
KnownOver(kind, it) ==
    \/ it.media = "document" /\ it.size = "over"
    \/ kind # "collect" /\ it.duration_over

Downloaded == {ldl[j] : j \in DOMAIN ldl}

MaxIndexEntries == 3      \* lines with a URL in the note
IGroups == {"", "g", "h"} \* no prefix yet, or one of two group prefixes

\* parse_note keeps the last prefix seen: once a line has set a group, no
\* later entry is without one
IndexNotes ==
    {n \in UNION {[1 .. k -> [url : BUrls, group : IGroups]]
                    : k \in 1 .. MaxIndexEntries} :
        \A i, j \in DOMAIN n : (i < j /\ n[j].group = "") => n[i].group = ""}

InitIndex ==
    /\ bnote \in IndexNotes
    /\ bfrom = FALSE
    /\ btab = [u \in BUrls |-> NoRow]
    /\ bpc = "idle" /\ bi = 0 /\ bitems = <<>> /\ bproc = <<>> /\ bindex = <<>>
    /\ InitOther_w /\ InitOther_d /\ InitOther_f /\ InitOther_x
    /\ sjobs = {} /\ sresult = NULL /\ squeue = <<>> /\ snext = 0

SpecIndex == InitIndex /\ [][NextBatch]_vars

\* Worker.process calls are made for the entry in hand, in ascending order
ProcessOrdered ==
    \A j \in DOMAIN bproc :
       /\ bproc[j].index <= bi
       /\ \A k \in DOMAIN bproc : j < k => bproc[j].index < bproc[k].index

IndexAll ==
    UNION {{<<g, q>> : q \in DOMAIN bindex[g].entries} : g \in DOMAIN bindex}

\* the entries of the index, read group after group, have ascending numbers
OutputOrdered ==
    \A p, r \in IndexAll :
       (p[1] < r[1] \/ (p[1] = r[1] /\ p[2] < r[2]))
          => bindex[p[1]].entries[p[2]].index < bindex[r[1]].entries[r[2]].index

\* an entry of another group stands between two entries of one group
Interleaved ==
    \E i, j, k \in DOMAIN valid_entries :
       /\ i < j /\ j < k
       /\ valid_entries[i].group = valid_entries[k].group
       /\ valid_entries[i].group # valid_entries[j].group

\* C27 (as stated): Worker.process is invoked one reference at a time in
\* submission order, and the index entries read in output order across all
\* groups are in submission order.
C27_Original ==
    /\ ProcessOrdered
    /\ (bpc = "done" /\ bindex # <<>>) => OutputOrdered

\* C27 (amended): Worker.process is invoked one reference at a time in
\* submission order; the index lists the entries group by group, so read
\* across all groups they are in submission order exactly when no group's
\* entries are separated in the note by an entry of another group.
C27_GroupedOrder ==
    /\ ProcessOrdered
    /\ (bpc = "done" /\ bindex # <<>>) => (OutputOrdered <=> ~Interleaved)

\* three references with prefixes g, h, g, the second one failed: the index
\* lists 1, 3 under g and then 2 under h
C27_Witness ==
    /\ bpc = "done" /\ Len(bindex) = 2
    /\ Len(bindex[1].entries) = 2
    /\ bindex[1].entries[2].index = 3 /\ bindex[2].entries[1].index = 2
    /\ ~bitems[2].success /\ Len(bproc) = 3


\* =========================================================================
\* SpecBus: EventBus subscribe / unsubscribe / publish, the loop callbacks
\* and the SSE consumers
\* =========================================================================

maxsize == 2              \* asyncio.Queue(maxsize=256), scaled down
MaxEvents == 3            \* publish calls in one behaviour
Subs == {1, 2}            \* SSE connections
\* threads that call publish: the event-loop thread (JobService.submit) and
\* the pipeline thread of the single-slot executor (_run_pipeline)
Publishers == {"loop", "pipeline"}

IdlePub == [pc |-> "idle", e |-> 0, todo |-> <<>>]

frame_q == <<wvars, dvars, s0vars, fvars, bvars, kvars, lvars, pvars, nvars, gvars>>

InitBus ==
    /\ qsub = {} /\ qloop = "running" /\ qready = <<>> /\ qby = <<>>
    /\ qq = [s \in Subs |-> <<>>]
    /\ qrecv = [s \in Subs |-> <<>>]
    /\ qsent = [s \in Subs |-> <<>>]
    /\ qpub = [p \in Publishers |-> IdlePub]
    /\ InitOther_w /\ InitOther_d /\ InitOther_f /\ InitOther_b
    /\ InitOther_k /\ InitOther_l /\ InitOther_p
    /\ InitOther_n /\ InitOther_g
    /\ sjobs = {} /\ sresult = NULL /\ squeue = <<>> /\ snext = 0

\* code that runs on the event-loop thread runs between two steps of that
\* thread: not while the loop thread is inside publish, not after close
OnLoop == qloop = "running" /\ qpub["loop"].pc = "idle"

\* EventBus.subscribe, called by the SSE generator with a new queue
subscribe(s) ==
    /\ OnLoop
    /\ s \notin qsub /\ qsent[s] = <<>> /\ qrecv[s] = <<>>
    /\ \A i \in DOMAIN qready : qready[i].s # s
    /\ \A p \in Publishers : \A i \in DOMAIN qpub[p].todo : qpub[p].todo[i] # s
    /\ qsub' = qsub \cup {s}
    /\ UNCHANGED <<frame_q, qq, qloop, qready, qpub, qrecv, qsent, qby>>

\* EventBus.unsubscribe, in the finally of the SSE generator
unsubscribe(s) ==
    /\ OnLoop
    /\ s \in qsub
    /\ qsub' = qsub \ {s}
    /\ UNCHANGED <<frame_q, qq, qloop, qready, qpub, qrecv, qsent, qby>>

\* list(self._subscribers): the set in its iteration order
RECURSIVE ListOf(_)
ListOf(S) ==
    IF S = {} THEN <<>>
    ELSE LET x == CHOOSE y \in S : \A z \in S : y <= z
         IN <<x>> \o ListOf(S \ {x})

\* publish: with self._lock: subscribers = list(self._subscribers);
\* if not subscribers: return
PublishStart(p) ==
    /\ qpub[p].pc = "idle"
    /\ p = "loop" => qloop = "running"
    /\ Len(qby) < MaxEvents
    /\ qby' = Append(qby, p)
    /\ qpub' = [qpub EXCEPT ![p] =
                  IF qsub = {} THEN IdlePub
                  ELSE [pc |-> "loop", e |-> Len(qby) + 1, todo |-> ListOf(qsub)]]
    /\ UNCHANGED <<frame_q, qsub, qq, qloop, qready, qrecv, qsent>>

\* EventBus._safe_put: put_nowait; on QueueFull get_nowait, put_nowait
_safe_put_mut(q, e) == IF Len(q) < maxsize THEN Append(q, e) ELSE q
_safe_put(q, e) ==
    IF Len(q) < maxsize THEN Append(q, e) ELSE Append(Tail(q), e)

\* publish: one iteration of "for q in subscribers": call_soon_threadsafe,
\* or the direct _safe_put when the loop is closed (RuntimeError)
PublishNext(p) ==
    /\ qpub[p].pc = "loop"
    /\ LET s == Head(qpub[p].todo)
           e == qpub[p].e
       IN /\ IF qloop = "running"
             THEN /\ qready' = Append(qready, [s |-> s, e |-> e])
                  /\ UNCHANGED <<qq, qsent>>
             ELSE /\ qq' = [qq EXCEPT ![s] = _safe_put(@, e)]
                  /\ qsent' = [qsent EXCEPT ![s] = Append(@, e)]
                  /\ UNCHANGED qready
          /\ qpub' = [qpub EXCEPT ![p] =
                        IF Tail(@.todo) = <<>> THEN IdlePub
                        ELSE [@ EXCEPT !.todo = Tail(@)]]
    /\ UNCHANGED <<frame_q, qsub, qloop, qrecv, qby>>

\* the loop runs the oldest scheduled callback: _safe_put(q, event)
LoopCallback ==
    /\ OnLoop
    /\ qready # <<>>
    /\ LET c == Head(qready)
       IN /\ qq' = [qq EXCEPT ![c.s] = _safe_put(@, c.e)]
          /\ qsent' = [qsent EXCEPT ![c.s] = Append(@, c.e)]
    /\ qready' = Tail(qready)
    /\ UNCHANGED <<frame_q, qsub, qloop, qpub, qrecv, qby>>

\* the SSE generator: event = await queue.get()
ConsumerGet(s) ==
    /\ OnLoop
    /\ s \in qsub /\ qq[s] # <<>>
    /\ qrecv' = [qrecv EXCEPT ![s] = Append(@, Head(qq[s]))]
    /\ qq' = [qq EXCEPT ![s] = Tail(@)]
    /\ UNCHANGED <<frame_q, qsub, qloop, qready, qpub, qsent, qby>>

\* shutdown: the loop is closed; scheduled callbacks never run
LoopClose ==
    /\ OnLoop
    /\ qloop' = "closed" /\ qready' = <<>>
    /\ UNCHANGED <<frame_q, qsub, qq, qpub, qrecv, qsent, qby>>

BusSubscribe == \E s \in Subs : subscribe(s)
BusUnsubscribe == \E s \in Subs : unsubscribe(s)
BusPublishStart == \E p \in Publishers : PublishStart(p)
BusPublishNext == \E p \in Publishers : PublishNext(p)
BusConsumerGet == \E s \in Subs : ConsumerGet(s)

NextBus ==
    \/ BusSubscribe \/ BusUnsubscribe \/ BusPublishStart \/ BusPublishNext
    \/ LoopCallback \/ BusConsumerGet \/ LoopClose

SpecBus == InitBus /\ [][NextBus]_vars

\* a is a subsequence of b that keeps b's order (events are distinct)
Place(b, x) == CHOOSE i \in DOMAIN b : b[i] = x
InOrderOf(a, b) ==
    /\ \A i \in DOMAIN a : \E j \in DOMAIN b : b[j] = a[i]
    /\ \A i, j \in DOMAIN a : i < j => Place(b, a[i]) < Place(b, a[j])

MaxProgress == 3          \* events the Worker's progress callback publishes

Terminal == {"done", "error"}

\* statuses the orchestrators pass to the progress callback
ProgressStatuses == {"analyzing", "collecting", "downloading", "transcribing",
                     "saving", "done"}

frame_p == <<wvars, dvars, s0vars, fvars, bvars, kvars, lvars, qvars, nvars, gvars>>

\* the job was submitted: pending, or whatever an earlier run left
InitPipeline ==
    /\ ppc = "idle" /\ pevents = <<>> /\ psent = FALSE /\ pexit = "none"
    /\ pstatus \in {"pending"} \cup StageStatuses
    /\ InitOther_w /\ InitOther_d /\ InitOther_f /\ InitOther_b
    /\ InitOther_k /\ InitOther_l /\ InitOther_q
    /\ InitOther_n /\ InitOther_g
    /\ sjobs = {} /\ sresult = NULL /\ squeue = <<>> /\ snext = 0

\* _notify(job_id, status): event_bus.publish
notify(evs, status) == Append(evs, status)

\* the executor starts the pipeline: terminal_sent = False
RunPipeline ==
    /\ ppc = "idle"
    /\ ppc' = "connect"
    /\ UNCHANGED <<frame_p, pevents, psent, pstatus, pexit>>

\* make_client(cfg); run_sync(client.connect())
PipeConnect ==
    /\ ppc = "connect"
    /\ ppc' \in {"auth", "except"}
    /\ UNCHANGED <<frame_p, pevents, psent, pstatus, pexit>>

\* if not is_user_authorized(): update, _notify(error), terminal_sent, return
PipeAuth ==
    /\ ppc = "auth"
    /\ \/ ppc' = "worker" /\ UNCHANGED <<pevents, psent, pstatus, pexit>>
       \/ ppc' = "except" /\ UNCHANGED <<pevents, psent, pstatus, pexit>>
       \/ \* not authorized, update_job_status raises
          ppc' = "except" /\ UNCHANGED <<pevents, psent, pstatus, pexit>>
       \/ /\ pstatus' = "error"
          /\ pevents' = notify(pevents, "error")
          /\ psent' = TRUE
          /\ pexit' = "return" /\ ppc' = "finally"
    /\ UNCHANGED frame_p

\* worker = Worker(cfg, db, progress_cb=_notify); worker.process(...) begins
PipeWorker ==
    /\ ppc = "worker"
    /\ ppc' \in {"process", "except"}
    /\ UNCHANGED <<frame_p, pevents, psent, pstatus, pexit>>

\* inside worker.process an orchestrator sets a status and calls the
\* progress callback
PipeProgress ==
    /\ ppc = "process"
    /\ Len(pevents) < MaxProgress
    /\ \E st \in ProgressStatuses :
          /\ pstatus' = st
          /\ pevents' = notify(pevents, st)
    /\ UNCHANGED <<frame_p, ppc, psent, pexit>>

\* worker.process returns paths, returns None or raises
PipeProcessReturn ==
    /\ ppc = "process"
    /\ \/ /\ pstatus' = "done"
          /\ pevents' = notify(pevents, "done")
          /\ psent' = TRUE /\ pexit' = "return" /\ ppc' = "finally"
       \/ /\ pstatus' \in {pstatus, "error"}
          /\ pevents' = notify(pevents, "error")
          /\ psent' = TRUE /\ pexit' = "return" /\ ppc' = "finally"
       \/ \* worker.process raises, or get_job_by_id after None raises
          /\ ppc' = "except"
          /\ UNCHANGED <<pevents, psent, pstatus, pexit>>
    /\ UNCHANGED frame_p

\* except Exception: update_job_status(error); _notify(error); terminal_sent
PipeExcept ==
    /\ ppc = "except"
    /\ \/ /\ pstatus' = "error"
          /\ pevents' = notify(pevents, "error")
          /\ psent' = TRUE /\ pexit' = "return"
       \/ \* update_job_status raises inside the handler
          /\ pexit' = "raise"
          /\ UNCHANGED <<pevents, psent, pstatus>>
    /\ ppc' = "finally"
    /\ UNCHANGED frame_p

\* finally: if not terminal_sent: _notify(error, ...)
safety_net_mut(sent, evs) == evs
safety_net(sent, evs) == IF ~sent THEN notify(evs, "error") ELSE evs

PipeFinally ==
    /\ ppc = "finally"
    /\ pevents' = safety_net(psent, pevents)
    /\ ppc' = "exited"
    /\ UNCHANGED <<frame_p, psent, pstatus, pexit>>

NextPipeline ==
    \/ RunPipeline \/ PipeConnect \/ PipeAuth \/ PipeWorker \/ PipeProgress
    \/ PipeProcessReturn \/ PipeExcept \/ PipeFinally

SpecPipeline == InitPipeline /\ [][NextPipeline]_vars

\* C22: every execution of _run_pipeline that has ended, by return or by an
\* exception of its own handler, has published at least one terminal event
\* for its job, and the last event it published is a terminal one.
C22_TerminalEvent ==
    ppc = "exited" =>
       /\ \E i \in DOMAIN pevents : pevents[i] \in Terminal
       /\ pevents # <<>> /\ pevents[Len(pevents)] \in Terminal

\* progress events were published, worker.process raised and the handler's
\* own update_job_status raised: the finally block published the error event
C22_Witness ==
    /\ ppc = "exited" /\ pexit = "raise" /\ ~psent
    /\ Len(pevents) >= 2 /\ pevents[1] \notin Terminal
    /\ pevents[Len(pevents)] = "error"


\* =========================================================================
\* SpecNotify: a run whose progress callback may raise, side by side with
\* the same run under a callback that never raises
\* =========================================================================

MaxBatch == 3             \* entries of the batch

\* the statuses a run passes to the progress callback, in order
Notifications(kind) ==
    CASE kind = "collect" ->
           <<"analyzing", "collecting", "transcribing", "saving", "done">>
      [] kind = "external" ->
           <<"analyzing", "downloading", "transcribing", "saving", "done">>
      [] kind = "ingest" -> <<"collecting", "done">>
      [] OTHER -> [i \in 1..MaxBatch |-> "batch"]

RunStart == [pos |-> 0, status |-> "pending", written |-> 0, failed |-> 0,
             exc |-> "none"]

Ended(kind, r) == r.exc # "none" \/ r.pos = Len(Notifications(kind))

\* def _notify(status): try: self._progress_cb(job_id, status) except
\* Exception: pass -- the exception that reaches the caller
_notify_mut(cb) == IF cb = "raised" THEN "CallbackError" ELSE "none"
_notify(cb) == "none"

\* one stage of an orchestrator run: update_job_status(status),
\* _notify(status), then the stage's work (none after "done")
stage_step(kind, r, cb, work) ==
    LET st == Notifications(kind)[r.pos + 1]
        r1 == [r EXCEPT !.pos = @ + 1, !.status = st]
    IN IF _notify(cb) # "none" THEN [r1 EXCEPT !.exc = _notify(cb)]
       ELSE IF st = "done" THEN r1
       ELSE IF work = "fail" THEN [r1 EXCEPT !.exc = "StageError"]
       ELSE [r1 EXCEPT !.written = @ + 1]

\* one turn of the batch loop: _process_entry, result.items.append, then
\* the callback
batch_step(r, cb, work) ==
    LET r1 == [r EXCEPT !.pos = @ + 1, !.written = @ + 1,
                        !.failed = IF work = "fail" THEN @ + 1 ELSE @]
    IN IF _notify(cb) # "none" THEN [r1 EXCEPT !.exc = _notify(cb)] ELSE r1

step(kind, r, cb, work) ==
    IF Ended(kind, r) THEN r
    ELSE IF kind = "batch" THEN batch_step(r, cb, work)
    ELSE stage_step(kind, r, cb, work)

frame_n == <<wvars, dvars, s0vars, fvars, bvars, kvars, lvars, qvars, pvars, gvars>>

InitNotify ==
    /\ nkind \in {"collect", "external", "ingest", "batch"}
    /\ nrun = RunStart /\ nref = RunStart /\ ncalls = <<>>
    /\ InitOther_w /\ InitOther_d /\ InitOther_f /\ InitOther_b
    /\ InitOther_k /\ InitOther_l /\ InitOther_q /\ InitOther_p /\ InitOther_g
    /\ sjobs = {} /\ sresult = NULL /\ squeue = <<>> /\ snext = 0

\* both runs take their next step on the same outcome of the stage's work;
\* the callback raises or returns in nrun and returns in nref
NotifyStep ==
    /\ ~Ended(nkind, nrun) \/ ~Ended(nkind, nref)
    /\ \E cb \in {"ok", "raised"}, work \in {"ok", "fail"} :
          /\ nrun' = step(nkind, nrun, cb, work)
          /\ nref' = step(nkind, nref, "ok", work)
          /\ ncalls' = IF Ended(nkind, nrun) THEN ncalls ELSE Append(ncalls, cb)
    /\ UNCHANGED <<frame_n, nkind>>

NextNotify == NotifyStep

SpecNotify == InitNotify /\ [][NextNotify]_vars

THROTTLE_SEC == 3
MaxClock == 5             \* largest value of time.monotonic() explored
MaxProgressCalls == 3     \* calls of the callback in one behaviour

\* statuses the Worker reports: two stage statuses and the terminal ones
GStatuses == {"downloading", "transcribing", "done", "error"}

frame_g == <<wvars, dvars, s0vars, fvars, bvars, kvars, lvars, qvars, pvars, nvars>>

\* __init__: _last_edit_time = 0.0, _last_status = None; the monotonic clock
\* has whatever value it has
InitProgress ==
    /\ gnow \in 0 .. MaxClock
    /\ _last_edit_time = 0 /\ _last_status = NULL
    /\ gedits = <<>> /\ gcall = <<>>
    /\ InitOther_w /\ InitOther_d /\ InitOther_f /\ InitOther_b
    /\ InitOther_k /\ InitOther_l /\ InitOther_q /\ InitOther_p /\ InitOther_n
    /\ sjobs = {} /\ sresult = NULL /\ squeue = <<>> /\ snext = 0

\* time passes between two calls
Tick ==
    /\ gnow < MaxClock
    /\ gnow' = gnow + 1
    /\ UNCHANGED <<_last_edit_time, _last_status, gedits, gcall, frame_g>>

\* if now - self._last_edit_time < THROTTLE_SEC and status != "done" and
\* status != "error": return
throttled_mut(now, last, status) == now - last < THROTTLE_SEC
throttled(now, last, status) ==
    now - last < THROTTLE_SEC /\ status # "done" /\ status # "error"

\* BotProgressCallback.__call__(job_id, status): deduplication, throttle,
\* then the fields are set and the edit is tried; an edit that raises or
\* times out is logged and swallowed
ProgressCall(status) ==
    /\ Len(gcall) < MaxProgressCalls
    /\ gcall' = Append(gcall, [status |-> status, time |-> gnow])
    /\ IF status = _last_status \/ throttled(gnow, _last_edit_time, status)
       THEN UNCHANGED <<_last_status, _last_edit_time, gedits>>
       ELSE /\ _last_status' = status
            /\ _last_edit_time' = gnow
            /\ \E ok \in BOOLEAN :
                  gedits' = Append(gedits, [status |-> status, time |-> gnow,
                                            call |-> Len(gcall) + 1, ok |-> ok])
    /\ UNCHANGED <<gnow, frame_g>>

GProgressCall == \E status \in GStatuses : ProgressCall(status)

NextProgress == Tick \/ GProgressCall

SpecProgress == InitProgress /\ [][NextProgress]_vars

\* call i of the callback made an edit
Edited(i) == \E k \in DOMAIN gedits : gedits[k].call = i
\* the edits made before call i, and the last of them
EditsBefore(i) == {k \in DOMAIN gedits : gedits[k].call < i}
PreviousEdit(i) == gedits[CHOOSE k \in EditsBefore(i) : \A m \in EditsBefore(i) : m <= k]

\* C38: over the calls made so far: a call with status done or error makes
\* an edit however short the time since the previous edit, unless the
\* previous edit was for that same status; a call with a stage status less
\* than THROTTLE_SEC after the previous edit makes none; a call whose status
\* is that of the previous edit makes none.
C38_ThrottleAndDedup ==
    \A i \in DOMAIN gcall :
       LET s == gcall[i].status
           first == EditsBefore(i) = {}
       IN /\ (s \in {"done", "error"} /\ (first \/ PreviousEdit(i).status # s))
               => Edited(i)
          /\ (/\ s \notin {"done", "error"} /\ ~first
              /\ gcall[i].time - PreviousEdit(i).time < THROTTLE_SEC)
               => ~Edited(i)
          /\ (~first /\ PreviousEdit(i).status = s) => ~Edited(i)

\* an edit for done was made less than THROTTLE_SEC after the edit before
\* it, and a later call with done made none
C38_Witness ==
    /\ Len(gedits) = 2 /\ Len(gcall) = 3
    /\ gedits[1].status = "downloading" /\ gedits[2].status = "done"
    /\ gedits[2].time - gedits[1].time < THROTTLE_SEC
    /\ gcall[3].status = "done"

====
